---- MODULE Spec2Model ----
(***************************************************************************)
(* Model of the access-controlled collection facade (accounting-core,      *)
(* Backend) over its two storage backends (accounting-sql SqlCollection,   *)
(* accounting-mongodb MongoDbCollection).                                  *)
(*                                                                         *)
(* Every facade call is an async function: each storage call it awaits is  *)
(* one atomic step of the model, and the steps of concurrent calls         *)
(* interleave freely.  A storage call may fail (Backend error) and a       *)
(* pending call may be cancelled (future dropped, process crash) at any    *)
(* await point.  One entity kind T is modelled; change_group is available  *)
(* as for a kind that implements ChangeGroup.                              *)
(***************************************************************************)
EXTENDS Integers, FiniteSets, Sequences, TLC

\* ---------------------------------------------------------------- bounds
NumCalls == 2
MaxVersion == 2
MaxId == 2

Calls == 1..NumCalls
\* the values Version::new_random / Id::new_random can return (64 bits in
\* the code, a small range here)
Version == 0..MaxVersion
Id == 1..MaxId

\* ------------------------------------------------------- program constants
\* enum AccessLevel, #[repr(u8)], derives Ord: None < Read < Write
AccessNone == 0
Read == 1
Write == 2
AccessLevel == {AccessNone, Read, Write}

User == {"U1", "U2", "U3"}
\* G3 is an id under which no group record is stored
GroupId == {"G1", "G2", "G3"}

\* payloads of the entity kind (an Account-like record)
Objects == { [name |-> "Cash", description |-> "d1"],
             [name |-> "Cash", description |-> "d2"] }

NoRow == [absent |-> TRUE]
NoObject == [none |-> TRUE]
NoGroup == "-"
NoId == 0 - 1
NoVersion == 0 - 1
NoCount == 0 - 1

\* error::Error and the Ok results of the facade
Unauthorized == "Unauthorized"
NotFound == "NotFound"
ConflictingEdit == "ConflictingEdit"
BackendError == "Backend"
Ok == "Ok"
OkNone == "OkNone"
Pending == "pending"

VARIABLES
    kind,       \* which storage backend the facade wraps: "sql" or "mongodb"
    groups,     \* the groups collection: group id -> Group record
    store,      \* primary records: id -> NoRow or [group, version, object]
    index,      \* sql index side-table rows: id -> NoRow or the index record
    call,       \* the facade calls: their arguments, locals, position, result
    stored,     \* history: per id, the versions stored so far, in order
    probe       \* the query layer: a query, the value it is applied to, results

vars == <<kind, groups, store, index, call, stored, probe>>

\* ------------------------------------------------------------ pure helpers

\* Permissions::get
Permissions_get(permissions, id) ==
    IF id \in DOMAIN permissions.users
    THEN permissions.users[id]
    ELSE permissions.default

\* Indexable::index for the entity kind: the projection of queryable fields
IndexOf(object) ==
    [name |-> object.name, description |-> object.description]

\* (mutant) the lookup's own error is returned: no map_err to Unauthorized
get_group_permsissions_propagate(group, user, fault) ==
    IF fault \/ group \notin DOMAIN groups
    THEN [ok |-> FALSE, level |-> AccessNone,
          err |-> IF fault THEN BackendError ELSE NotFound]
    ELSE [ok |-> TRUE,
          level |-> Permissions_get(groups[group].permissions, user),
          err |-> Ok]

\* (mutant) a group with no record grants Read
get_group_permsissions_lenient(group, user, fault) ==
    IF fault
    THEN [ok |-> FALSE, level |-> AccessNone, err |-> Unauthorized]
    ELSE IF group \notin DOMAIN groups
    THEN [ok |-> TRUE, level |-> Read, err |-> Ok]
    ELSE [ok |-> TRUE,
          level |-> Permissions_get(groups[group].permissions, user),
          err |-> Ok]

\* Backend::get_group_permsissions; `fault`: the storage lookup returned an error
get_group_permsissions(group, user, fault) ==
    IF fault \/ group \notin DOMAIN groups
    THEN [ok |-> FALSE, level |-> AccessNone, err |-> Unauthorized]
    ELSE [ok |-> TRUE,
          level |-> Permissions_get(groups[group].permissions, user),
          err |-> Ok]

\* A facade call.  op, user, id, version, object, newGroup: the operation,
\* Backend.current_user and the arguments; grp: the group get_group_of (or
\* get) resolved; found: the record get read; newVersion: the local
\* new_version drawn from Version::new_random; fault: the storage call of
\* this call that returned an error, if any; result: what the call returned.
IdleCall ==
    [pc |-> "idle", op |-> "-", user |-> "-", id |-> NoId, version |-> NoVersion,
     object |-> NoObject, newGroup |-> NoGroup, grp |-> NoGroup,
     found |-> NoRow, newVersion |-> NoVersion, fault |-> "none",
     result |-> Pending, count |-> NoCount]

\* ------------------------------------------------------------------- Init
InitVersion == CHOOSE v \in Version : \A w \in Version : v <= w
InitId == CHOOSE i \in Id : \A j \in Id : i <= j
InitObject == [name |-> "Cash", description |-> "d1"]

\* the query layer at rest: no query is being evaluated
NoProbe == [pc |-> "none"]

\* the groups collection at start: G1 readable by all, G2 closed to all but U1
InitGroups ==
    [g \in {"G1", "G2"} |->
        IF g = "G1"
        THEN [name |-> "Accounting",
              permissions |-> [users |-> [u \in {"U1", "U3"} |-> Write],
                               default |-> Read]]
        ELSE [name |-> "Other",
              permissions |-> [users |-> [u \in {"U1"} |-> Write],
                               default |-> AccessNone]]]

\* the collections as they are when the facade is constructed
InitBackend ==
    /\ kind \in {"sql", "mongodb"}
    /\ groups = InitGroups
    /\ store = [i \in Id |->
                    IF i = InitId
                    THEN [group |-> "G1", version |-> InitVersion, object |-> InitObject]
                    ELSE NoRow]
    /\ index = [i \in Id |->
                    IF i = InitId /\ kind = "sql" THEN IndexOf(InitObject) ELSE NoRow]
    /\ call = [c \in Calls |-> IdleCall]
    /\ stored = [i \in Id |-> IF i = InitId THEN <<InitVersion>> ELSE <<>>]

Init ==
    /\ InitBackend
    /\ probe = NoProbe

\* the outcome of one permission check of call record `rec`: the lookup's
\* error is propagated by `?`, a level below `required` is Unauthorized,
\* otherwise the call goes on to `next`
CheckAccess(rec, group, required, next, fault) ==
    LET perm == get_group_permsissions(group, rec.user, fault) IN
    IF ~perm.ok
    THEN [rec EXCEPT !.pc = "done", !.result = perm.err, !.found = NoRow,
                     !.fault = IF fault THEN "group" ELSE "none"]
    ELSE IF perm.level < required
    THEN [rec EXCEPT !.pc = "done", !.result = Unauthorized, !.found = NoRow]
    ELSE [rec EXCEPT !.pc = next]

\* (mutant) an id with no record is reported as Unauthorized
get_group_of_hidden(id, fault) ==
    IF fault
    THEN [ok |-> FALSE, group |-> NoGroup, err |-> BackendError]
    ELSE IF store[id] = NoRow
    THEN [ok |-> FALSE, group |-> NoGroup, err |-> Unauthorized]
    ELSE [ok |-> TRUE, group |-> store[id].group, err |-> Ok]

\* Backend::get_group_of; `fault`: the collection lookup returned an error
get_group_of(id, fault) ==
    IF fault
    THEN [ok |-> FALSE, group |-> NoGroup, err |-> BackendError]
    ELSE IF store[id] = NoRow
    THEN [ok |-> FALSE, group |-> NoGroup, err |-> NotFound]
    ELSE [ok |-> TRUE, group |-> store[id].group, err |-> Ok]

\* the first await of update / delete / change_group: `begun` is the call
\* with its arguments bound
ResolveGroup(begun, fault) ==
    LET r == get_group_of(begun.id, fault) IN
    IF r.ok
    THEN [begun EXCEPT !.pc = "perm", !.grp = r.group]
    ELSE [begun EXCEPT !.pc = "done", !.result = r.err,
                       !.fault = IF fault THEN "object" ELSE "none"]

\* ----------------------------------------------------------- facade: get

\* Backend::get, first await: the collection lookup
Backend_get(c) ==
    /\ call[c].pc = "idle"
    /\ \E user \in User, id \in Id, fault \in BOOLEAN :
        LET begun == [IdleCall EXCEPT !.op = "get", !.user = user, !.id = id] IN
        call' = [call EXCEPT ![c] =
            IF fault
            THEN [begun EXCEPT !.pc = "done", !.result = BackendError,
                               !.fault = "object"]
            ELSE IF store[id] = NoRow
            THEN [begun EXCEPT !.pc = "done", !.result = OkNone]
            ELSE [begun EXCEPT !.pc = "perm", !.found = store[id],
                               !.grp = store[id].group]]
    /\ UNCHANGED <<kind, groups, store, index, stored, probe>>

\* (mutant) get returns the record whatever the level
Backend_get_perm_open(c) ==
    /\ call[c].pc = "perm"
    /\ call[c].op = "get"
    /\ \E fault \in BOOLEAN :
        call' = [call EXCEPT ![c] =
            LET r == CheckAccess(call[c], call[c].grp, AccessNone, "done", fault) IN
            IF r.result = Pending THEN [r EXCEPT !.result = Ok] ELSE r]
    /\ UNCHANGED <<kind, groups, store, index, stored, probe>>

\* Backend::get, second await: the permission lookup on the object's group
Backend_get_perm(c) ==
    /\ call[c].pc = "perm"
    /\ call[c].op = "get"
    /\ \E fault \in BOOLEAN :
        call' = [call EXCEPT ![c] =
            LET r == CheckAccess(call[c], call[c].grp, Read, "done", fault) IN
            IF r.result = Pending THEN [r EXCEPT !.result = Ok] ELSE r]
    /\ UNCHANGED <<kind, groups, store, index, stored, probe>>

\* -------------------------------------------------------- facade: create

\* (mutant) create asks for Read, as get does
Backend_create_read(c) ==
    /\ call[c].pc = "idle"
    /\ \E user \in User, group \in GroupId, object \in Objects, fault \in BOOLEAN :
        call' = [call EXCEPT ![c] =
            CheckAccess([IdleCall EXCEPT !.op = "create", !.user = user,
                                         !.object = object, !.newGroup = group],
                        group, Read, "write", fault)]
    /\ UNCHANGED <<kind, groups, store, index, stored, probe>>

\* Backend::create: the permission lookup on the owning group
Backend_create(c) ==
    /\ call[c].pc = "idle"
    /\ \E user \in User, group \in GroupId, object \in Objects, fault \in BOOLEAN :
        call' = [call EXCEPT ![c] =
            CheckAccess([IdleCall EXCEPT !.op = "create", !.user = user,
                                         !.object = object, !.newGroup = group],
                        group, Write, "write", fault)]
    /\ UNCHANGED <<kind, groups, store, index, stored, probe>>

\* -------------------------------------------------------- facade: update

\* Backend::update, first await: get_group_of
Backend_update(c) ==
    /\ call[c].pc = "idle"
    /\ \E user \in User, id \in Id, version \in Version, object \in Objects,
          fault \in BOOLEAN :
        call' = [call EXCEPT ![c] =
            ResolveGroup([IdleCall EXCEPT !.op = "update", !.user = user, !.id = id,
                                          !.version = version, !.object = object],
                         fault)]
    /\ UNCHANGED <<kind, groups, store, index, stored, probe>>

\* (mutant) update asks for Read
Backend_update_perm_read(c) ==
    /\ call[c].pc = "perm"
    /\ call[c].op = "update"
    /\ \E fault \in BOOLEAN :
        call' = [call EXCEPT ![c] =
            CheckAccess(call[c], call[c].grp, Read, "write", fault)]
    /\ UNCHANGED <<kind, groups, store, index, stored, probe>>

\* Backend::update, second await: the permission lookup
Backend_update_perm(c) ==
    /\ call[c].pc = "perm"
    /\ call[c].op = "update"
    /\ \E fault \in BOOLEAN :
        call' = [call EXCEPT ![c] =
            CheckAccess(call[c], call[c].grp, Write, "write", fault)]
    /\ UNCHANGED <<kind, groups, store, index, stored, probe>>

\* -------------------------------------------------------- facade: delete

\* Backend::delete, first await: get_group_of
Backend_delete(c) ==
    /\ call[c].pc = "idle"
    /\ \E user \in User, id \in Id, fault \in BOOLEAN :
        call' = [call EXCEPT ![c] =
            ResolveGroup([IdleCall EXCEPT !.op = "delete", !.user = user, !.id = id],
                         fault)]
    /\ UNCHANGED <<kind, groups, store, index, stored, probe>>

\* Backend::delete, second await: the permission lookup
Backend_delete_perm(c) ==
    /\ call[c].pc = "perm"
    /\ call[c].op = "delete"
    /\ \E fault \in BOOLEAN :
        call' = [call EXCEPT ![c] =
            CheckAccess(call[c], call[c].grp, Write, "write", fault)]
    /\ UNCHANGED <<kind, groups, store, index, stored, probe>>

\* -------------------------------------------------- facade: change_group

\* Backend::change_group, first await: get_group_of
Backend_change_group(c) ==
    /\ call[c].pc = "idle"
    /\ \E user \in User, id \in Id, group \in GroupId, fault \in BOOLEAN :
        call' = [call EXCEPT ![c] =
            ResolveGroup([IdleCall EXCEPT !.op = "change_group", !.user = user,
                                          !.id = id, !.newGroup = group],
                         fault)]
    /\ UNCHANGED <<kind, groups, store, index, stored, probe>>

\* Backend::change_group: the lookup on the old group; `||` short-circuits,
\* so the new group is looked up only when the old one grants Write
Backend_change_group_perm_old(c) ==
    /\ call[c].pc = "perm"
    /\ call[c].op = "change_group"
    /\ \E fault \in BOOLEAN :
        call' = [call EXCEPT ![c] =
            CheckAccess(call[c], call[c].grp, Write, "perm2", fault)]
    /\ UNCHANGED <<kind, groups, store, index, stored, probe>>

\* (mutant) the second lookup is made on the old group again
Backend_change_group_perm_old_twice(c) ==
    /\ call[c].pc = "perm2"
    /\ call[c].op = "change_group"
    /\ \E fault \in BOOLEAN :
        call' = [call EXCEPT ![c] =
            CheckAccess(call[c], call[c].grp, Write, "write", fault)]
    /\ UNCHANGED <<kind, groups, store, index, stored, probe>>

\* Backend::change_group: the lookup on the new group
Backend_change_group_perm_new(c) ==
    /\ call[c].pc = "perm2"
    /\ call[c].op = "change_group"
    /\ \E fault \in BOOLEAN :
        call' = [call EXCEPT ![c] =
            CheckAccess(call[c], call[c].newGroup, Write, "write", fault)]
    /\ UNCHANGED <<kind, groups, store, index, stored, probe>>

\* ------------------------------------------------ storage statements
\* What one statement does to the stored data.  `v` is the value the call
\* drew from Version::new_random just before issuing the statement.

\* (mutant) the statement filters on the id alone
CasMatchesIdOnly(id, version) ==
    store[id] # NoRow

\* UPDATE resources SET (version, resource) WHERE id AND version /
\* update_one(query_id_version, $set): does the compare-and-swap match?
CasMatches(id, version) ==
    store[id] # NoRow /\ store[id].version = version

\* (mutant) the statement sets the payload and leaves the version
ApplyUpdateKeepVersion(id, v, object) ==
    /\ store' = [store EXCEPT ![id] = [group |-> @.group, version |-> @.version,
                                       object |-> object]]
    /\ stored' = [stored EXCEPT ![id] = Append(@, store[id].version)]

\* the compare-and-swap applied: version and payload replaced, group kept
ApplyUpdate(id, v, object) ==
    /\ store' = [store EXCEPT ![id] = [group |-> @.group, version |-> v,
                                       object |-> object]]
    /\ stored' = [stored EXCEPT ![id] = Append(@, v)]

\* (mutant) the statement sets the group and leaves the version
ApplyChangeGroupKeepVersion(id, v, group) ==
    IF store[id] # NoRow
    THEN /\ store' = [store EXCEPT ![id] = [group |-> group, version |-> @.version,
                                            object |-> @.object]]
         /\ stored' = [stored EXCEPT ![id] = Append(@, store[id].version)]
    ELSE UNCHANGED <<store, stored>>

\* (mutant) the statement sets the version and leaves the group
ApplyChangeGroupOnlyVersion(id, v, group) ==
    IF store[id] # NoRow
    THEN /\ store' = [store EXCEPT ![id] = [group |-> @.group, version |-> v,
                                            object |-> @.object]]
         /\ stored' = [stored EXCEPT ![id] = Append(@, v)]
    ELSE UNCHANGED <<store, stored>>

\* UPDATE resources SET (version, group_) WHERE id / update_one(query_id, $set):
\* a statement that matches no record changes nothing
ApplyChangeGroup(id, v, group) ==
    IF store[id] # NoRow
    THEN /\ store' = [store EXCEPT ![id] = [group |-> group, version |-> v,
                                            object |-> @.object]]
         /\ stored' = [stored EXCEPT ![id] = Append(@, v)]
    ELSE UNCHANGED <<store, stored>>

\* (mutant) the insert stores a version other than the one the call drew
ApplyInsertOtherVersion(id, v, group, object) ==
    /\ store' = [store EXCEPT ![id] = [group |-> group, version |-> InitVersion,
                                       object |-> object]]
    /\ stored' = [stored EXCEPT ![id] = Append(@, InitVersion)]

\* INSERT INTO resources / insert_one
ApplyInsert(id, v, group, object) ==
    /\ store' = [store EXCEPT ![id] = [group |-> group, version |-> v,
                                       object |-> object]]
    /\ stored' = [stored EXCEPT ![id] = Append(@, v)]

\* (mutant) the statement matches nothing and the record stays
ApplyDeleteNothing(id) ==
    UNCHANGED <<store, stored>>

\* DELETE from resources WHERE id / delete_one
ApplyDelete(id) ==
    /\ store' = [store EXCEPT ![id] = NoRow]
    /\ UNCHANGED stored

\* (mutant) a compare-and-swap that matched nothing is a conflict, unchecked
RecheckAlwaysConflict(rec, fault) ==
    IF fault
    THEN [rec EXCEPT !.pc = "done", !.result = BackendError, !.fault = "recheck"]
    ELSE [rec EXCEPT !.pc = "done", !.result = ConflictingEdit]

\* the existence re-check after a compare-and-swap that matched nothing
Recheck(rec, fault) ==
    IF fault
    THEN [rec EXCEPT !.pc = "done", !.result = BackendError, !.fault = "recheck"]
    ELSE IF store[rec.id] # NoRow
    THEN [rec EXCEPT !.pc = "done", !.result = ConflictingEdit]
    ELSE [rec EXCEPT !.pc = "done", !.result = NotFound]

\* the statement of call c on the primary records returned an error
FailWrite(c, v, what) ==
    /\ call' = [call EXCEPT ![c].pc = "done", ![c].result = BackendError,
                            ![c].newVersion = v, ![c].fault = what]
    /\ UNCHANGED <<store, stored>>

\* ------------------------------------------------------ MongoDbCollection

\* (mutant) the insert replaces a document already stored under the id
Mongo_create_upsert(c, v) ==
    /\ kind = "mongodb"
    /\ call[c].pc = "write"
    /\ call[c].op = "create"
    /\ \E id \in Id, fault \in BOOLEAN :
        IF fault
        THEN FailWrite(c, v, "write")
        ELSE /\ ApplyInsert(id, v, call[c].newGroup, call[c].object)
             /\ call' = [call EXCEPT ![c].pc = "done", ![c].result = Ok,
                                     ![c].id = id, ![c].newVersion = v]
    /\ UNCHANGED <<kind, groups, index, probe>>

\* MongoDbCollection::create: insert_one with a random id and version; a
\* document with that _id already stored makes the insert fail
Mongo_create(c, v) ==
    /\ kind = "mongodb"
    /\ call[c].pc = "write"
    /\ call[c].op = "create"
    /\ \E id \in Id, fault \in BOOLEAN :
        IF fault \/ store[id] # NoRow
        THEN FailWrite(c, v, IF fault THEN "write" ELSE "duplicate")
        ELSE /\ ApplyInsert(id, v, call[c].newGroup, call[c].object)
             /\ call' = [call EXCEPT ![c].pc = "done", ![c].result = Ok,
                                     ![c].id = id, ![c].newVersion = v]
    /\ UNCHANGED <<kind, groups, index, probe>>

\* MongoDbCollection::update: update_one on (id, version)
Mongo_update(c, v) ==
    /\ kind = "mongodb"
    /\ call[c].pc = "write"
    /\ call[c].op = "update"
    /\ \E fault \in BOOLEAN :
        IF fault
        THEN FailWrite(c, v, "write")
        ELSE IF CasMatches(call[c].id, call[c].version)
        THEN /\ ApplyUpdate(call[c].id, v, call[c].object)
             /\ call' = [call EXCEPT ![c].pc = "done", ![c].result = Ok,
                                     ![c].newVersion = v]
        ELSE /\ call' = [call EXCEPT ![c].pc = "recheck", ![c].newVersion = v]
             /\ UNCHANGED <<store, stored>>
    /\ UNCHANGED <<kind, groups, index, probe>>

\* MongoDbCollection::update: find_one(query_id) after matched_count != 1
Mongo_update_recheck(c) ==
    /\ kind = "mongodb"
    /\ call[c].pc = "recheck"
    /\ \E fault \in BOOLEAN :
        call' = [call EXCEPT ![c] = Recheck(call[c], fault)]
    /\ UNCHANGED <<kind, groups, store, index, stored, probe>>

\* MongoDbCollection::delete: delete_one, its result ignored
Mongo_delete(c) ==
    /\ kind = "mongodb"
    /\ call[c].pc = "write"
    /\ call[c].op = "delete"
    /\ \E fault \in BOOLEAN :
        IF fault
        THEN FailWrite(c, NoVersion, "write")
        ELSE /\ ApplyDelete(call[c].id)
             /\ call' = [call EXCEPT ![c].pc = "done", ![c].result = Ok]
    /\ UNCHANGED <<kind, groups, index, probe>>

\* MongoDbCollection::change_group: update_one(query_id), its result ignored
Mongo_change_group(c, v) ==
    /\ kind = "mongodb"
    /\ call[c].pc = "write"
    /\ call[c].op = "change_group"
    /\ \E fault \in BOOLEAN :
        IF fault
        THEN FailWrite(c, v, "write")
        ELSE /\ ApplyChangeGroup(call[c].id, v, call[c].newGroup)
             /\ call' = [call EXCEPT ![c].pc = "done", ![c].result = Ok,
                                     ![c].newVersion = v]
    /\ UNCHANGED <<kind, groups, index, probe>>

\* ---------------------------------------------------------- SqlCollection
\* The statement on `resources` runs on the pool (committed by itself); the
\* index statements run afterwards in a transaction of their own, which
\* either commits as a whole or leaves the index rows as they were.

\* the index transaction of call c did not commit
FailIndex(c) ==
    /\ call' = [call EXCEPT ![c].pc = "done", ![c].result = BackendError,
                            ![c].fault = "index"]
    /\ UNCHANGED index

\* SqlCollection::create: INSERT INTO resources; a row with that id already
\* stored makes the insert fail
Sql_create(c, v) ==
    /\ kind = "sql"
    /\ call[c].pc = "write"
    /\ call[c].op = "create"
    /\ \E id \in Id, fault \in BOOLEAN :
        IF fault \/ store[id] # NoRow
        THEN FailWrite(c, v, IF fault THEN "write" ELSE "duplicate")
        ELSE /\ ApplyInsert(id, v, call[c].newGroup, call[c].object)
             /\ call' = [call EXCEPT ![c].pc = "index", ![c].id = id,
                                     ![c].newVersion = v]
    /\ UNCHANGED <<kind, groups, index, probe>>

\* SqlCollection::insert_object_indexes: INSERT of the index row, which
\* fails when the id already has one
Sql_insert_object_indexes(c) ==
    /\ kind = "sql"
    /\ call[c].pc = "index"
    /\ call[c].op = "create"
    /\ \E fault \in BOOLEAN :
        IF fault \/ index[call[c].id] # NoRow
        THEN FailIndex(c)
        ELSE /\ index' = [index EXCEPT ![call[c].id] = IndexOf(call[c].object)]
             /\ call' = [call EXCEPT ![c].pc = "done", ![c].result = Ok]
    /\ UNCHANGED <<kind, groups, store, stored, probe>>

\* SqlCollection::update: UPDATE resources ... WHERE id AND version
Sql_update(c, v) ==
    /\ kind = "sql"
    /\ call[c].pc = "write"
    /\ call[c].op = "update"
    /\ \E fault \in BOOLEAN :
        IF fault
        THEN FailWrite(c, v, "write")
        ELSE IF CasMatches(call[c].id, call[c].version)
        THEN /\ ApplyUpdate(call[c].id, v, call[c].object)
             /\ call' = [call EXCEPT ![c].pc = "index", ![c].newVersion = v]
        ELSE /\ call' = [call EXCEPT ![c].pc = "recheck", ![c].newVersion = v]
             /\ UNCHANGED <<store, stored>>
    /\ UNCHANGED <<kind, groups, index, probe>>

\* SqlCollection::update: SELECT version after rows_affected() < 1
Sql_update_recheck(c) ==
    /\ kind = "sql"
    /\ call[c].pc = "recheck"
    /\ \E fault \in BOOLEAN :
        call' = [call EXCEPT ![c] = Recheck(call[c], fault)]
    /\ UNCHANGED <<kind, groups, store, index, stored, probe>>

\* SqlCollection::update_object_indexes: INSERT ... ON CONFLICT DO UPDATE
Sql_update_object_indexes(c) ==
    /\ kind = "sql"
    /\ call[c].pc = "index"
    /\ call[c].op = "update"
    /\ \E fault \in BOOLEAN :
        IF fault
        THEN FailIndex(c)
        ELSE /\ index' = [index EXCEPT ![call[c].id] = IndexOf(call[c].object)]
             /\ call' = [call EXCEPT ![c].pc = "done", ![c].result = Ok]
    /\ UNCHANGED <<kind, groups, store, stored, probe>>

\* SqlCollection::delete: DELETE from resources
Sql_delete(c) ==
    /\ kind = "sql"
    /\ call[c].pc = "write"
    /\ call[c].op = "delete"
    /\ \E fault \in BOOLEAN :
        IF fault
        THEN FailWrite(c, NoVersion, "write")
        ELSE /\ ApplyDelete(call[c].id)
             /\ call' = [call EXCEPT ![c].pc = "index"]
    /\ UNCHANGED <<kind, groups, index, probe>>

\* SqlCollection::remove_object_indexes: DELETE FROM the index table
Sql_remove_object_indexes(c) ==
    /\ kind = "sql"
    /\ call[c].pc = "index"
    /\ call[c].op = "delete"
    /\ \E fault \in BOOLEAN :
        IF fault
        THEN FailIndex(c)
        ELSE /\ index' = [index EXCEPT ![call[c].id] = NoRow]
             /\ call' = [call EXCEPT ![c].pc = "done", ![c].result = Ok]
    /\ UNCHANGED <<kind, groups, store, stored, probe>>

\* SqlCollection::change_group: UPDATE resources SET (version, group_); the
\* index rows are not touched
Sql_change_group(c, v) ==
    /\ kind = "sql"
    /\ call[c].pc = "write"
    /\ call[c].op = "change_group"
    /\ \E fault \in BOOLEAN :
        IF fault
        THEN FailWrite(c, v, "write")
        ELSE /\ ApplyChangeGroup(call[c].id, v, call[c].newGroup)
             /\ call' = [call EXCEPT ![c].pc = "done", ![c].result = Ok,
                                     ![c].newVersion = v]
    /\ UNCHANGED <<kind, groups, index, probe>>

\* ----------------------------------------------------------- cancellation
\* A call suspended at an await point is dropped (cancellation, crash of
\* the process): it takes no further step and returns nothing; the
\* arguments it held are gone with it.
Suspended == {"perm", "perm2", "write", "recheck", "index"}

Cancel(c) ==
    /\ call[c].pc \in Suspended
    /\ call' = [call EXCEPT ![c].pc = "cancelled", ![c].version = NoVersion,
                            ![c].object = NoObject, ![c].found = NoRow]
    /\ UNCHANGED <<kind, groups, store, index, stored, probe>>

\* ---------------------------------------------------------------- Next
\* `rng`: the values Version::new_random may return in this step
Step(c, rng) ==
    \/ Backend_get(c)
    \/ Backend_get_perm(c)
    \/ Backend_create(c)
    \/ Backend_update(c)
    \/ Backend_update_perm(c)
    \/ Backend_delete(c)
    \/ Backend_delete_perm(c)
    \/ Backend_change_group(c)
    \/ Backend_change_group_perm_old(c)
    \/ Backend_change_group_perm_new(c)
    \/ \E v \in rng : Mongo_create(c, v)
    \/ \E v \in rng : Mongo_update(c, v)
    \/ Mongo_update_recheck(c)
    \/ Mongo_delete(c)
    \/ \E v \in rng : Mongo_change_group(c, v)
    \/ \E v \in rng : Sql_create(c, v)
    \/ Sql_insert_object_indexes(c)
    \/ \E v \in rng : Sql_update(c, v)
    \/ Sql_update_recheck(c)
    \/ Sql_update_object_indexes(c)
    \/ Sql_delete(c)
    \/ Sql_remove_object_indexes(c)
    \/ \E v \in rng : Sql_change_group(c, v)
    \/ Cancel(c)

\* Version::new_random may return any value
Next == \E c \in Calls : Step(c, Version)

Spec == Init /\ [][Next]_vars

\* the values Version::new_random has returned so far
Minted ==
    {InitVersion} \cup ({call[c].newVersion : c \in Calls} \ {NoVersion})

\* Version::new_random never returns a value it returned before (the
\* collision-free random source the design relies on)
NextFresh == \E c \in Calls : Step(c, Version \ Minted)

SpecFresh == Init /\ [][NextFresh]_vars

\* ============================================================= query layer
\* SimpleQuery<T> over an ordered value type, its in-memory evaluation and
\* its translation to SQL predicates.

\* the values of the queried field
MaxQValue == 3
QValue == 0..MaxQValue

\* how many comparators of one SimpleQuery are set at most
MaxComparators == 2

\* the Option<T> fields and the Option<Vec<T>> fields of SimpleQuery
ScalarComparators == {"eq", "ne", "gt", "ge", "lt", "le"}
ListComparators == {"in_", "nin"}

\* Option::None of a T field and of a Vec<T> field
NoValue == 0 - 1
NoList == {NoValue}

ScalarParts(k) ==
    {sc \in [ScalarComparators -> QValue \cup {NoValue}] :
        Cardinality({f \in ScalarComparators : sc[f] # NoValue}) = k}

ListParts(k) ==
    {ls \in [ListComparators -> (SUBSET QValue) \cup {NoList}] :
        Cardinality({f \in ListComparators : ls[f] # NoList}) = k}

\* struct SimpleQuery<T>; a Vec<T> field is the set of its elements
SimpleQuery(sc, ls) ==
    [eq |-> sc["eq"], ne |-> sc["ne"], gt |-> sc["gt"], ge |-> sc["ge"],
     lt |-> sc["lt"], le |-> sc["le"], in_ |-> ls["in_"], nin |-> ls["nin"]]

\* the queries with at most MaxComparators fields set
SimpleQueries ==
    UNION {{SimpleQuery(sc, ls) : sc \in ScalarParts(n[1]), ls \in ListParts(n[2])} :
            n \in {m \in (0..MaxComparators) \X (0..MaxComparators) :
                        m[1] + m[2] <= MaxComparators}}

\* (mutant) the comparators set are alternatives
SimpleQuery_matches_any(query, object) ==
    \/ (query.eq # NoValue /\ object = query.eq)
    \/ (query.ne # NoValue /\ object # query.ne)
    \/ (query.gt # NoValue /\ object > query.gt)
    \/ (query.ge # NoValue /\ object >= query.ge)
    \/ (query.lt # NoValue /\ object < query.lt)
    \/ (query.le # NoValue /\ object <= query.le)
    \/ (query.in_ # NoList /\ object \in query.in_)
    \/ (query.nin # NoList /\ object \notin query.nin)

\* SimpleQuery::matches
SimpleQuery_matches(query, object) ==
    /\ (query.eq # NoValue => object = query.eq)
    /\ (query.ne # NoValue => object # query.ne)
    /\ (query.gt # NoValue => object > query.gt)
    /\ (query.ge # NoValue => object >= query.ge)
    /\ (query.lt # NoValue => object < query.lt)
    /\ (query.le # NoValue => object <= query.le)
    /\ (query.in_ # NoList => object \in query.in_)
    /\ (query.nin # NoList => object \notin query.nin)

\* push_value_query / push_vec_query: one " AND table.column operator $n"
Predicate(operator, operand) == [operator |-> operator, operand |-> operand]

\* push_simple_query: the predicates pushed for one column, in the order
\* and with the operator texts of the code
push_simple_query(query) ==
       (IF query.eq # NoValue THEN <<Predicate("=", query.eq)>> ELSE <<>>)
    \o (IF query.ne # NoValue THEN <<Predicate("<>", query.ne)>> ELSE <<>>)
    \o (IF query.lt # NoValue THEN <<Predicate("<", query.lt)>> ELSE <<>>)
    \o (IF query.le # NoValue THEN <<Predicate("<=", query.le)>> ELSE <<>>)
    \o (IF query.gt # NoValue THEN <<Predicate(">", query.gt)>> ELSE <<>>)
    \o (IF query.ge # NoValue THEN <<Predicate("<=", query.ge)>> ELSE <<>>)
    \o (IF query.in_ # NoList THEN <<Predicate("= ANY", query.in_)>> ELSE <<>>)
    \o (IF query.nin # NoList THEN <<Predicate("<> ALL", query.nin)>> ELSE <<>>)

\* what the database makes of `column operator operand`
SqlOperator(operator, column, operand) ==
    CASE operator = "=" -> column = operand
      [] operator = "<>" -> column # operand
      [] operator = "<" -> column < operand
      [] operator = "<=" -> column <= operand
      [] operator = ">" -> column > operand
      [] operator = ">=" -> column >= operand
      [] operator = "= ANY" -> column \in operand
      [] operator = "<> ALL" -> column \notin operand

\* the WHERE clause: the pushed predicates joined by AND
SqlWhere(predicates, column) ==
    \A k \in DOMAIN predicates :
        SqlOperator(predicates[k].operator, column, predicates[k].operand)

\* a query and a value of the queried field, nothing evaluated yet
InitSimpleQuery ==
    /\ InitBackend
    /\ kind = "sql"
    /\ probe \in {[pc |-> "query", query |-> q, value |-> v, matches |-> FALSE,
                   sql |-> <<>>, selected |-> FALSE] :
                        q \in SimpleQueries, v \in QValue}

\* the query is evaluated in memory
Probe_matches ==
    /\ probe.pc = "query"
    /\ probe' = [probe EXCEPT !.pc = "matched",
                              !.matches = SimpleQuery_matches(probe.query, probe.value)]
    /\ UNCHANGED <<kind, groups, store, index, call, stored>>

\* the query is translated for the relational backend
Probe_push_simple_query ==
    /\ probe.pc = "matched"
    /\ probe' = [probe EXCEPT !.pc = "pushed",
                              !.sql = push_simple_query(probe.query)]
    /\ UNCHANGED <<kind, groups, store, index, call, stored>>

\* the database evaluates the translation on a row holding the value
Probe_where ==
    /\ probe.pc = "pushed"
    /\ probe' = [probe EXCEPT !.pc = "selected",
                              !.selected = SqlWhere(probe.sql, probe.value)]
    /\ UNCHANGED <<kind, groups, store, index, call, stored>>

NextSimpleQuery ==
    \/ Probe_matches
    \/ Probe_push_simple_query
    \/ Probe_where

SpecSimpleQuery == InitSimpleQuery /\ [][NextSimpleQuery]_vars

\* ------------------------------------------------------------ query_count
\* Transactions with their collection entries (amounts: account -> amount),
\* the index rows the sql backend keeps for them, and the statement
\* query_count runs.  Descriptions are modelled by their rank in the order of
\* strings, dates are left out.
MaxAmount == 1
QAmount == 0..MaxAmount
QAccount == {"A1", "A2"}
MaxClauses == 2
\* Amount::ZERO
AmountZERO == 0

Transactions ==
    {[description |-> d, amounts |-> m] :
        d \in QAmount,
        m \in UNION {[S -> 1..MaxAmount] : S \in SUBSET QAccount}}

\* Transaction::index: the singular row and one account_amount row per entry
TransactionIndexOf(transaction) ==
    [description |-> transaction.description,
     account_amount |-> {[account |-> a, amount |-> transaction.amounts[a]] :
                            a \in DOMAIN transaction.amounts}]

\* the clauses a caller can pass: TransactionQuery's Description (here: eq),
\* Account and AccountAmount (one comparator, any of the six)
OneComparator(f, v) ==
    SimpleQuery([g \in ScalarComparators |-> IF g = f THEN v ELSE NoValue],
                [g \in ListComparators |-> NoList])
DescriptionQueries == {OneComparator("eq", v) : v \in QAmount}
AmountQueries == {OneComparator(f, v) : f \in ScalarComparators, v \in 1..MaxAmount}
NoEntry == [account |-> "-", amount |-> NoValue]
QueryClauses ==
    {[type |-> "Description", query |-> q, accounts |-> {}, account |-> "-"] :
        q \in DescriptionQueries}
    \cup {[type |-> "Account", query |-> OneComparator("eq", NoValue),
           accounts |-> S, account |-> "-"] : S \in SUBSET QAccount}
    \cup {[type |-> "AccountAmount", query |-> q, accounts |-> {}, account |-> a] :
            q \in AmountQueries, a \in QAccount}
QueryLists ==
    UNION {[1..n -> QueryClauses] : n \in 0..MaxClauses}

\* TransactionQuery::matches, one clause
TransactionQuery_matches(clause, transaction) ==
    CASE clause.type = "Description" ->
            SimpleQuery_matches(clause.query, transaction.description)
      [] clause.type = "Account" ->
            \E account \in clause.accounts : account \in DOMAIN transaction.amounts
      [] clause.type = "AccountAmount" ->
            SimpleQuery_matches(clause.query,
                IF clause.account \in DOMAIN transaction.amounts
                THEN transaction.amounts[clause.account]
                ELSE AmountZERO)

\* ToSqlQuery::table
SqlTable(clause) ==
    IF clause.type = "Description" THEN "singular_parameters" ELSE "account_amount"

\* ToSqlQuery::push_query: the predicates of one clause, read on the singular
\* row and on the account_amount row its alias is bound to
ClauseWhere(clause, singular, entry) ==
    CASE clause.type = "Description" ->
            SqlWhere(push_simple_query(clause.query), singular.description)
      [] clause.type = "Account" ->
            entry.account \in clause.accounts
      [] clause.type = "AccountAmount" ->
            /\ entry.account = clause.account
            /\ SqlWhere(push_simple_query(clause.query), entry.amount)

\* query: resources JOIN singular_parameters, one JOIN of the clause's table
\* per clause that is not on singular_parameters, WHERE every predicate.
\* The rows of the join that belong to the object id.
JoinRows(id, queries) ==
    IF store[id] = NoRow \/ index[id] = NoRow
    THEN {}
    ELSE LET joined == {k \in DOMAIN queries :
                            SqlTable(queries[k]) # "singular_parameters"} IN
         {r \in [joined -> index[id].account_amount] :
            \A k \in DOMAIN queries :
                ClauseWhere(queries[k], index[id],
                            IF k \in joined THEN r[k] ELSE NoEntry)}

\* COUNT(*): the number of rows of the join, over the objects ids
RECURSIVE CountRows(_, _)
CountRows(ids, queries) ==
    IF ids = {}
    THEN 0
    ELSE LET id == CHOOSE i \in ids : TRUE IN
         Cardinality(JoinRows(id, queries)) + CountRows(ids \ {id}, queries)

\* SqlCollection::query_count
Sql_query_count(queries) == CountRows(Id, queries)

\* the stores query_count is run on: the first id holds a transaction of G1
\* with the least description, the other ids none or one of G2 with a later
\* description; the index rows are those of the objects
QueryStores ==
    {s \in [Id -> {NoRow} \cup {[group |-> g, version |-> InitVersion, object |-> t] :
                                    g \in {"G1", "G2"}, t \in Transactions}] :
        /\ s[InitId] # NoRow
        /\ \A i \in Id : s[i] # NoRow =>
                /\ s[i].group = "G1" <=> i = InitId
                /\ s[i].object.description = 0 <=> i = InitId}

InitQueryCount ==
    /\ kind = "sql"
    /\ groups = InitGroups
    /\ store \in QueryStores
    /\ index = [i \in Id |->
                    IF store[i] = NoRow THEN NoRow
                    ELSE TransactionIndexOf(store[i].object)]
    /\ call = [c \in Calls |-> IdleCall]
    /\ stored = [i \in Id |-> IF store[i] = NoRow THEN <<>> ELSE <<InitVersion>>]
    /\ probe \in {[pc |-> "queries", queries |-> qs] : qs \in QueryLists}

\* (mutant) the facade counts only what the caller may read
Backend_query_count_readable(c) ==
    /\ call[c].pc = "idle"
    /\ probe.pc = "queries"
    /\ kind = "sql"
    /\ \E user \in User, fault \in BOOLEAN :
        LET begun == [IdleCall EXCEPT !.op = "query_count", !.user = user,
                                      !.pc = "done"]
            readable == {i \in Id :
                            /\ store[i] # NoRow
                            /\ get_group_permsissions(store[i].group, user, FALSE).level >= Read}
        IN
        call' = [call EXCEPT ![c] =
            IF fault
            THEN [begun EXCEPT !.result = BackendError, !.fault = "object"]
            ELSE [begun EXCEPT !.result = Ok,
                               !.count = CountRows(readable, probe.queries)]]
    /\ UNCHANGED <<kind, groups, store, index, stored, probe>>

\* Backend::query_count: no permission check, the collection's count
Backend_query_count(c) ==
    /\ call[c].pc = "idle"
    /\ probe.pc = "queries"
    /\ kind = "sql"
    /\ \E user \in User, fault \in BOOLEAN :
        LET begun == [IdleCall EXCEPT !.op = "query_count", !.user = user,
                                      !.pc = "done"] IN
        call' = [call EXCEPT ![c] =
            IF fault
            THEN [begun EXCEPT !.result = BackendError, !.fault = "object"]
            ELSE [begun EXCEPT !.result = Ok,
                               !.count = Sql_query_count(probe.queries)]]
    /\ UNCHANGED <<kind, groups, store, index, stored, probe>>

NextQueryCount == \E c \in Calls : Backend_query_count(c)

SpecQueryCount == InitQueryCount /\ [][NextQueryCount]_vars

\* ------------------------------------------------------------ BooleanExpr
\* enum BooleanExpr<T> { Value(T), Not(Box<Self>), Any(Vec<Self>), All(Vec<Self>) }
\* as records: tag, the leaf's value, and the sub-expressions in order (one for
\* Not, none for Value).
MaxStack == 3
MaxOps == 4
Leaves == {"a", "b"}
ExprValue(v) == [tag |-> "Value", value |-> v, clauses |-> <<>>]
ExprNot(expr) == [tag |-> "Not", value |-> "-", clauses |-> <<expr>>]
ExprAny(clauses) == [tag |-> "Any", value |-> "-", clauses |-> clauses]
ExprAll(clauses) == [tag |-> "All", value |-> "-", clauses |-> clauses]
NoExpr == [tag |-> "-", value |-> "-", clauses |-> <<>>]

\* (mutant) and always wraps its two operands
BooleanExpr_and_nested(self, other) == ExprAll(<<self, other>>)

\* BooleanExpr::and
BooleanExpr_and(self, other) ==
    IF self.tag = "All" /\ other.tag = "All"
    THEN ExprAll(self.clauses \o other.clauses)
    ELSE IF self.tag = "All"
    THEN ExprAll(Append(self.clauses, other))
    ELSE IF other.tag = "All"
    THEN ExprAll(Append(other.clauses, self))
    ELSE ExprAll(<<self, other>>)

\* BooleanExpr::or
BooleanExpr_or(self, other) ==
    IF self.tag = "Any" /\ other.tag = "Any"
    THEN ExprAny(self.clauses \o other.clauses)
    ELSE IF self.tag = "Any"
    THEN ExprAny(Append(self.clauses, other))
    ELSE IF other.tag = "Any"
    THEN ExprAny(Append(other.clauses, self))
    ELSE ExprAny(<<self, other>>)

\* BooleanExpr::try_fold with the truth-value folder: map_all is "every
\* clause", map_any is "some clause", map_not is negation, map_value reads the
\* leaf's truth value from the assignment
RECURSIVE Evaluate(_, _)
Evaluate(expr, assignment) ==
    CASE expr.tag = "All" ->
            \A k \in DOMAIN expr.clauses : Evaluate(expr.clauses[k], assignment)
      [] expr.tag = "Any" ->
            \E k \in DOMAIN expr.clauses : Evaluate(expr.clauses[k], assignment)
      [] expr.tag = "Not" -> ~Evaluate(expr.clauses[1], assignment)
      [] expr.tag = "Value" -> assignment[expr.value]

\* (mutant) not leaves a Not as it is
BooleanExpr_not_kept(self) ==
    IF self.tag = "Not" THEN self ELSE ExprNot(self)

\* <BooleanExpr as ops::Not>::not
BooleanExpr_not(self) ==
    IF self.tag = "Not" THEN self.clauses[1] ELSE ExprNot(self)

\* Expressions are built bottom-up on a stack of operands: a leaf is pushed,
\* not replaces the top, and/or replace the two topmost (self below other).
\* ops counts the constructor calls made.
InitBooleanExpr ==
    /\ InitBackend
    /\ kind = "sql"
    /\ probe = [pc |-> "expr", stack |-> <<>>, ops |-> 0,
                last |-> [op |-> "-", self |-> NoExpr, other |-> NoExpr]]

Top(stack) == stack[Len(stack)]
Below(stack) == stack[Len(stack) - 1]
Pop(stack, n) == SubSeq(stack, 1, Len(stack) - n)

Expr_value ==
    /\ probe.pc = "expr"
    /\ Len(probe.stack) < MaxStack
    /\ \E v \in Leaves :
        probe' = [probe EXCEPT
                    !.stack = Append(@, ExprValue(v)),
                    !.last = [op |-> "value", self |-> ExprValue(v), other |-> NoExpr]]
    /\ UNCHANGED <<kind, groups, store, index, call, stored>>

Expr_and ==
    /\ probe.pc = "expr"
    /\ Len(probe.stack) >= 2
    /\ probe.ops < MaxOps
    /\ probe' = [probe EXCEPT
                    !.stack = Append(Pop(@, 2), BooleanExpr_and(Below(@), Top(@))),
                    !.ops = @ + 1,
                    !.last = [op |-> "and", self |-> Below(probe.stack),
                              other |-> Top(probe.stack)]]
    /\ UNCHANGED <<kind, groups, store, index, call, stored>>

Expr_or ==
    /\ probe.pc = "expr"
    /\ Len(probe.stack) >= 2
    /\ probe.ops < MaxOps
    /\ probe' = [probe EXCEPT
                    !.stack = Append(Pop(@, 2), BooleanExpr_or(Below(@), Top(@))),
                    !.ops = @ + 1,
                    !.last = [op |-> "or", self |-> Below(probe.stack),
                              other |-> Top(probe.stack)]]
    /\ UNCHANGED <<kind, groups, store, index, call, stored>>

Expr_not ==
    /\ probe.pc = "expr"
    /\ Len(probe.stack) >= 1
    /\ probe.ops < MaxOps
    /\ probe' = [probe EXCEPT
                    !.stack = Append(Pop(@, 1), BooleanExpr_not(Top(@))),
                    !.ops = @ + 1,
                    !.last = [op |-> "not", self |-> Top(probe.stack),
                              other |-> NoExpr]]
    /\ UNCHANGED <<kind, groups, store, index, call, stored>>

NextBooleanExpr == \/ Expr_value \/ Expr_and \/ Expr_or \/ Expr_not

SpecBooleanExpr == InitBooleanExpr /\ [][NextBooleanExpr]_vars

\* --------------------------------------------------------- try_map_values
MaxVariants == 3
\* f: the leaf transform; it fails on the leaves in `fails` (the error names
\* the leaf) and maps every other leaf to its image
MappedLeaf(v) == IF v = "a" THEN "A" ELSE "B"
MapOk(expr) == [ok |-> TRUE, expr |-> expr, err |-> "-"]
MapErr(err) == [ok |-> FALSE, expr |-> NoExpr, err |-> err]

\* BooleanExpr::try_map_values; the clauses of All/Any are mapped in order
\* and collected into a Result, which stops at the first Err; a Not is put
\* back with ops::Not::not
RECURSIVE BooleanExpr_try_map_values(_, _)
RECURSIVE CollectMapped(_, _, _, _)
CollectMapped(expr, fails, k, acc) ==
    IF k > Len(expr.clauses)
    THEN MapOk([tag |-> expr.tag, value |-> "-", clauses |-> acc])
    ELSE LET r == BooleanExpr_try_map_values(expr.clauses[k], fails) IN
         IF r.ok
         THEN CollectMapped(expr, fails, k + 1, Append(acc, r.expr))
         ELSE r
BooleanExpr_try_map_values(expr, fails) ==
    CASE expr.tag = "Value" ->
            IF expr.value \in fails
            THEN MapErr(expr.value)
            ELSE MapOk(ExprValue(MappedLeaf(expr.value)))
      [] expr.tag \in {"All", "Any"} -> CollectMapped(expr, fails, 1, <<>>)
      [] expr.tag = "Not" ->
            LET r == BooleanExpr_try_map_values(expr.clauses[1], fails) IN
            IF r.ok THEN MapOk(BooleanExpr_not(r.expr)) ELSE r

\* Expressions given to try_map_values are values of the public enum: they
\* are put together from the variants themselves, on a stack of operands.
InitTryMapValues ==
    /\ InitBackend
    /\ kind = "sql"
    /\ probe = [pc |-> "variants", stack |-> <<>>, ops |-> 0, fails |-> {},
                result |-> MapOk(NoExpr)]

Variant_Value ==
    /\ probe.pc = "variants"
    /\ Len(probe.stack) < MaxStack
    /\ \E v \in Leaves : probe' = [probe EXCEPT !.stack = Append(@, ExprValue(v))]
    /\ UNCHANGED <<kind, groups, store, index, call, stored>>

Variant_Not ==
    /\ probe.pc = "variants"
    /\ Len(probe.stack) >= 1
    /\ probe.ops < MaxVariants
    /\ probe' = [probe EXCEPT !.stack = Append(Pop(@, 1), ExprNot(Top(@))),
                              !.ops = @ + 1]
    /\ UNCHANGED <<kind, groups, store, index, call, stored>>

Variant_Any ==
    /\ probe.pc = "variants"
    /\ probe.ops < MaxVariants
    /\ \E n \in 0..Len(probe.stack) :
        probe' = [probe EXCEPT
                    !.stack = Append(Pop(@, n),
                                     ExprAny(SubSeq(@, Len(@) - n + 1, Len(@)))),
                    !.ops = @ + 1]
    /\ UNCHANGED <<kind, groups, store, index, call, stored>>

Variant_All ==
    /\ probe.pc = "variants"
    /\ probe.ops < MaxVariants
    /\ \E n \in 0..Len(probe.stack) :
        probe' = [probe EXCEPT
                    !.stack = Append(Pop(@, n),
                                     ExprAll(SubSeq(@, Len(@) - n + 1, Len(@)))),
                    !.ops = @ + 1]
    /\ UNCHANGED <<kind, groups, store, index, call, stored>>

Probe_try_map_values ==
    /\ probe.pc = "variants"
    /\ Len(probe.stack) = 1
    /\ \E fails \in SUBSET Leaves :
        probe' = [probe EXCEPT
                    !.pc = "mapped",
                    !.fails = fails,
                    !.result = BooleanExpr_try_map_values(Top(probe.stack), fails)]
    /\ UNCHANGED <<kind, groups, store, index, call, stored>>

NextTryMapValues ==
    \/ Variant_Value \/ Variant_Not \/ Variant_Any \/ Variant_All
    \/ Probe_try_map_values

SpecTryMapValues == InitTryMapValues /\ [][NextTryMapValues]_vars

\* ------------------------------------------------ document-store compile
\* Option<T>: None is <<>>, Some(x) is <<x>>
OptionOf(S) == {<<>>} \cup {<<x>> : x \in S}

\* struct TransactionQuery { date, description, account, account_amount }
TransactionQueries ==
    [date : OptionOf(DescriptionQueries),
     description : OptionOf(DescriptionQueries),
     account : OptionOf(SUBSET QAccount),
     account_amount : OptionOf(QAccount \X AmountQueries)]

\* QueryElement::{Comparator, In, ElemMatch}
QueryElement_Comparator(comparators) ==
    [element |-> "Comparator", comparators |-> comparators]
QueryElement_In(set) == [element |-> "In", set |-> set]
QueryElement_ElemMatch(query) == [element |-> "ElemMatch", query |-> query]

\* SerializedQuery::from_path_and_query, from_path_queries: a leaf holding
\* the map path -> element; all_opt: the All of the options that are Some,
\* in the order given
PathQuery(path, element) == [path |-> path, element |-> element]
SerializedQuery_from_path_and_query(path, element) ==
    ExprValue(<<PathQuery(path, element)>>)
SerializedQuery_from_path_queries(queries) == ExprValue(queries)
RECURSIVE Somes(_)
Somes(options) ==
    IF options = <<>> THEN <<>> ELSE Head(options) \o Somes(Tail(options))
SerializedQuery_all_opt(options) == ExprAll(Somes(options))

\* Serialize for Amount: #[serde(with = "rust_decimal::serde::str")], the
\* decimal digits as a string (a sequence of digits, most significant first)
RECURSIVE Amount_serialize(_)
Amount_serialize(amount) ==
    IF amount < 10 THEN <<amount>>
    ELSE Append(Amount_serialize(amount \div 10), amount % 10)
\* Serialize for String and Date: the value itself (its rank in the order)
Plain_serialize(value) == value
\* T::serialize of the queried field's type: Amount for the amounts, String
\* and Date otherwise
Serialize(type, value) ==
    IF type = "Amount" THEN Amount_serialize(value) ELSE Plain_serialize(value)
\* SimpleQuery::serialize_value: the comparators that are set, each with its
\* serialized value; SimpleQuery::eq(value)
SimpleQuery_serialize_value(query, type) ==
    {[comparator |-> f, value |-> Serialize(type, query[f])] :
        f \in {g \in ScalarComparators : query[g] # NoValue}}
SimpleQuery_eq(value) == {[comparator |-> "eq", value |-> value]}

\* (mutant) the description clause is put before the date clause
TransactionQuery_serialize_query_swapped(query) ==
    LET date_query ==
            [k \in DOMAIN query.date |->
                SerializedQuery_from_path_and_query("date",
                    QueryElement_Comparator(
                        SimpleQuery_serialize_value(query.date[k],
                                                    "Plain")))]
        description_query ==
            [k \in DOMAIN query.description |->
                SerializedQuery_from_path_and_query("description",
                    QueryElement_Comparator(
                        SimpleQuery_serialize_value(query.description[k],
                                                    "Plain")))]
        account_query ==
            [k \in DOMAIN query.account |->
                SerializedQuery_from_path_and_query("amounts",
                    QueryElement_ElemMatch(
                        SerializedQuery_from_path_and_query("0",
                            QueryElement_In(query.account[k]))))]
        amount_query ==
            [k \in DOMAIN query.account_amount |->
                SerializedQuery_from_path_and_query("amounts",
                    QueryElement_ElemMatch(
                        SerializedQuery_from_path_queries(
                            <<PathQuery("0", QueryElement_Comparator(
                                    SimpleQuery_eq(query.account_amount[k][1]))),
                              PathQuery("1", QueryElement_Comparator(
                                    SimpleQuery_serialize_value(
                                        query.account_amount[k][2],
                                        "Amount")))>>)))]
    IN SerializedQuery_all_opt(<<description_query, date_query,
                                 account_query, amount_query>>)

\* TransactionQuery::serialize_query
TransactionQuery_serialize_query(query) ==
    LET date_query ==
            [k \in DOMAIN query.date |->
                SerializedQuery_from_path_and_query("date",
                    QueryElement_Comparator(
                        SimpleQuery_serialize_value(query.date[k],
                                                    "Plain")))]
        description_query ==
            [k \in DOMAIN query.description |->
                SerializedQuery_from_path_and_query("description",
                    QueryElement_Comparator(
                        SimpleQuery_serialize_value(query.description[k],
                                                    "Plain")))]
        account_query ==
            [k \in DOMAIN query.account |->
                SerializedQuery_from_path_and_query("amounts",
                    QueryElement_ElemMatch(
                        SerializedQuery_from_path_and_query("0",
                            QueryElement_In(query.account[k]))))]
        amount_query ==
            [k \in DOMAIN query.account_amount |->
                SerializedQuery_from_path_and_query("amounts",
                    QueryElement_ElemMatch(
                        SerializedQuery_from_path_queries(
                            <<PathQuery("0", QueryElement_Comparator(
                                    SimpleQuery_eq(query.account_amount[k][1]))),
                              PathQuery("1", QueryElement_Comparator(
                                    SimpleQuery_serialize_value(
                                        query.account_amount[k][2],
                                        "Amount")))>>)))]
    IN SerializedQuery_all_opt(<<date_query, description_query,
                                 account_query, amount_query>>)

\* serialized_query_to_document: try_fold with all_f, any_f, not_f, value_f;
\* query_element_to_bson.  A document is either one operator over documents
\* or a sequence of fields; bson::to_bson of a comparator query has one
\* operator per comparator.
BsonOperator(comparator) ==
    CASE comparator = "eq" -> "$eq" [] comparator = "ne" -> "$ne"
      [] comparator = "gt" -> "$gt" [] comparator = "ge" -> "$gte"
      [] comparator = "lt" -> "$lt" [] comparator = "le" -> "$lte"
RECURSIVE serialized_query_to_document(_)
RECURSIVE query_element_to_bson(_)
query_element_to_bson(element) ==
    CASE element.element = "ElemMatch" ->
            [bson |-> "$elemMatch",
             document |-> serialized_query_to_document(element.query)]
      [] element.element = "Comparator" ->
            [bson |-> "comparators",
             operators |-> {[operator |-> BsonOperator(c.comparator),
                             operand |-> c.value] : c \in element.comparators}]
      [] element.element = "In" -> [bson |-> "$in", set |-> element.set]
serialized_query_to_document(query) ==
    CASE query.tag = "All" ->
            [operator |-> "$and",
             clauses |-> [k \in DOMAIN query.clauses |->
                            serialized_query_to_document(query.clauses[k])]]
      [] query.tag = "Any" ->
            [operator |-> "$or",
             clauses |-> [k \in DOMAIN query.clauses |->
                            serialized_query_to_document(query.clauses[k])]]
      [] query.tag = "Not" ->
            [operator |-> "$nor",
             clauses |-> <<serialized_query_to_document(query.clauses[1])>>]
      [] query.tag = "Value" ->
            [operator |-> "fields",
             clauses |-> [k \in DOMAIN query.value |->
                            [field |-> query.value[k].path,
                             bson |-> query_element_to_bson(query.value[k].element)]]]

\* query_to_document on a TransactionQuery
query_to_document(query) ==
    serialized_query_to_document(TransactionQuery_serialize_query(query))

InitCompile ==
    /\ InitBackend
    /\ kind = "mongodb"
    /\ probe \in {[pc |-> "query", query |-> q, document |-> <<>>] :
                    q \in TransactionQueries}

Probe_query_to_document ==
    /\ probe.pc = "query"
    /\ probe' = [probe EXCEPT !.pc = "document",
                              !.document = <<query_to_document(probe.query)>>]
    /\ UNCHANGED <<kind, groups, store, index, call, stored>>

NextCompile == Probe_query_to_document

SpecCompile == InitCompile /\ [][NextCompile]_vars

\* ------------------------------------------------------ per-entry leaves
\* TransactionQuery account_amount (account, amount query) on a transaction
\* and GroupQuery UserPerm (user, access query) on a group: in memory, as the
\* document store reads the compiled filter, and as the side table of the
\* relational backend answers it.
MaxEntryAmount == 10
EntryAmount == 0..MaxEntryAmount
EntryAmountQueries ==
    {OneComparator(f, v) : f \in ScalarComparators, v \in EntryAmount}
AccessQueries ==
    {OneComparator(f, v) : f \in ScalarComparators, v \in AccessLevel}
EntryTransactions ==
    {[description |-> 0, amounts |-> m] :
        m \in UNION {[S -> EntryAmount] : S \in SUBSET QAccount}}
EntryGroups ==
    {[name |-> "Accounting", permissions |-> [users |-> m, default |-> d]] :
        m \in UNION {[S -> AccessLevel] : S \in SUBSET {"U1", "U2"}},
        d \in AccessLevel}

\* <GroupQuery as Query<Group>>::matches, UserPerm
GroupQuery_matches_UserPerm(user, query, group) ==
    SimpleQuery_matches(query, Permissions_get(group.permissions, user))

\* <Group as Indexable>::index: one user_access row per entry of users
GroupIndexOf(group) ==
    [name |-> group.name,
     user_access |-> {[user |-> u, access |-> group.permissions.users[u]] :
                        u \in DOMAIN group.permissions.users}]

\* UserAccess::push_query read on one user_access row
UserAccessWhere(user, query, row) ==
    /\ row.user = user
    /\ SqlWhere(push_simple_query(query), row.access)

\* The stored form of a transaction in the document store: Map serializes as
\* an array of [key, value] pairs, an Amount as its string
TransactionDocument(transaction) ==
    [description |-> Plain_serialize(transaction.description),
     amounts |-> {<<a, Amount_serialize(transaction.amounts[a])>> :
                    a \in DOMAIN transaction.amounts}]

\* the order of the document store on strings of digits: character by
\* character, a proper prefix first
RECURSIVE StringLess(_, _)
StringLess(s, t) ==
    IF s = <<>> THEN t # <<>>
    ELSE IF t = <<>> THEN FALSE
    ELSE IF Head(s) # Head(t) THEN Head(s) < Head(t)
    ELSE StringLess(Tail(s), Tail(t))

\* one comparison operator of the document store on a field value
BsonCompare(operator, value, operand) ==
    CASE operator = "$eq" -> value = operand
      [] operator = "$ne" -> value # operand
      [] operator = "$gt" -> StringLess(operand, value)
      [] operator = "$gte" -> value = operand \/ StringLess(operand, value)
      [] operator = "$lt" -> StringLess(value, operand)
      [] operator = "$lte" -> value = operand \/ StringLess(value, operand)

\* the field of a document (or the position of an array element) by name
FieldOf(document, field) ==
    CASE field = "amounts" -> document.amounts
      [] field = "description" -> document.description
      [] field = "0" -> document[1]
      [] field = "1" -> document[2]

\* count_documents(filter): whether the store selects a document
RECURSIVE DocumentMatches(_, _)
RECURSIVE BsonMatches(_, _)
BsonMatches(bson, value) ==
    CASE bson.bson = "$elemMatch" ->
            \E element \in value : DocumentMatches(bson.document, element)
      [] bson.bson = "$in" -> value \in bson.set
      [] bson.bson = "comparators" ->
            \A o \in bson.operators : BsonCompare(o.operator, value, o.operand)
DocumentMatches(filter, document) ==
    CASE filter.operator = "$and" ->
            \A k \in DOMAIN filter.clauses : DocumentMatches(filter.clauses[k], document)
      [] filter.operator = "$or" ->
            \E k \in DOMAIN filter.clauses : DocumentMatches(filter.clauses[k], document)
      [] filter.operator = "$nor" ->
            \A k \in DOMAIN filter.clauses : ~DocumentMatches(filter.clauses[k], document)
      [] filter.operator = "fields" ->
            \A k \in DOMAIN filter.clauses :
                BsonMatches(filter.clauses[k].bson,
                            FieldOf(document, filter.clauses[k].field))

\* the TransactionQuery with account_amount alone
AccountAmountQuery(account, query) ==
    [date |-> <<>>, description |-> <<>>, account |-> <<>>,
     account_amount |-> <<<<account, query>>>>]
AccountAmountClause(account, query) ==
    [type |-> "AccountAmount", query |-> query, accounts |-> {}, account |-> account]

InitPerEntry ==
    /\ InitBackend
    /\ probe \in
        {[pc |-> "leaf", entity |-> "transaction", key |-> a, query |-> q,
          object |-> t, matches |-> FALSE, selected |-> FALSE] :
            a \in QAccount, q \in EntryAmountQueries, t \in EntryTransactions}
        \cup
        {[pc |-> "leaf", entity |-> "group", key |-> u, query |-> q,
          object |-> g, matches |-> FALSE, selected |-> FALSE] :
            u \in {"U1", "U2"}, q \in AccessQueries, g \in EntryGroups}

\* Query::matches on the object
Probe_leaf_matches ==
    /\ probe.pc = "leaf"
    /\ probe' = [probe EXCEPT
                    !.pc = "matched",
                    !.matches =
                        IF probe.entity = "transaction"
                        THEN TransactionQuery_matches(
                                AccountAmountClause(probe.key, probe.query),
                                probe.object)
                        ELSE GroupQuery_matches_UserPerm(probe.key, probe.query,
                                                         probe.object)]
    /\ UNCHANGED <<kind, groups, store, index, call, stored>>

\* the document store answers the compiled filter ($elemMatch on amounts)
Probe_leaf_elem_match ==
    /\ probe.pc = "matched"
    /\ kind = "mongodb"
    /\ probe.entity = "transaction"
    /\ probe' = [probe EXCEPT
                    !.pc = "selected",
                    !.selected =
                        DocumentMatches(
                            query_to_document(AccountAmountQuery(probe.key, probe.query)),
                            TransactionDocument(probe.object))]
    /\ UNCHANGED <<kind, groups, store, index, call, stored>>

\* the relational backend answers from the side table joined on the id
Probe_leaf_side_table ==
    /\ probe.pc = "matched"
    /\ kind = "sql"
    /\ probe' = [probe EXCEPT
                    !.pc = "selected",
                    !.selected =
                        IF probe.entity = "transaction"
                        THEN \E row \in TransactionIndexOf(probe.object).account_amount :
                                ClauseWhere(AccountAmountClause(probe.key, probe.query),
                                            TransactionIndexOf(probe.object), row)
                        ELSE \E row \in GroupIndexOf(probe.object).user_access :
                                UserAccessWhere(probe.key, probe.query, row)]
    /\ UNCHANGED <<kind, groups, store, index, call, stored>>

NextPerEntry ==
    \/ Probe_leaf_matches
    \/ Probe_leaf_elem_match
    \/ Probe_leaf_side_table

SpecPerEntry == InitPerEntry /\ [][NextPerEntry]_vars

\* ============================================================= group index
\* The owning group as the sql backend indexes it: the group_ column of the
\* object's singular_parameters row, the Group clause of WithGroupQuery that
\* reads it, and change_group.

\* the lists of groups a Group clause can carry
GroupLists == (SUBSET {"G1", "G2"}) \ {{}}

\* Indexable::index(&self, group): the singular row carries the owning group
\* the object was indexed with
GroupedIndexOf(object, group) ==
    [group_ |-> group, name |-> object.name]

\* WithGroupQuery::Group: AND singular_parameters.group_ = ANY(groups), on
\* resources JOIN singular_parameters USING (id)
GroupClauseRows(groupList) ==
    {id \in Id :
        /\ store[id] # NoRow
        /\ index[id] # NoRow
        /\ index[id].group_ \in groupList}

\* the stores the group clause is run on: the first id holds an object of
\* G1, the other ids none or one of G1 or G2; every index row is the one
\* written when the object was created in its group
GroupStores ==
    {s \in [Id -> {NoRow} \cup {[group |-> g, version |-> InitVersion, object |-> o] :
                                    g \in {"G1", "G2"}, o \in Objects}] :
        /\ s[InitId] # NoRow
        /\ s[InitId].group = "G1"}

InitGroupIndex ==
    /\ kind = "sql"
    /\ groups = InitGroups
    /\ store \in GroupStores
    /\ index = [i \in Id |->
                    IF store[i] = NoRow THEN NoRow
                    ELSE GroupedIndexOf(store[i].object, store[i].group)]
    /\ call = [c \in Calls |-> IdleCall]
    /\ stored = [i \in Id |-> IF store[i] = NoRow THEN <<>> ELSE <<InitVersion>>]
    /\ probe \in {[pc |-> "group", groupList |-> gs] : gs \in GroupLists}

\* Backend::query_count with the single clause Group(groups): no permission
\* check, COUNT(*) of the joined rows
Backend_query_count_group(c) ==
    /\ call[c].pc = "idle"
    /\ probe.pc = "group"
    /\ kind = "sql"
    /\ \E user \in User, fault \in BOOLEAN :
        LET begun == [IdleCall EXCEPT !.op = "query_count", !.user = user,
                                      !.pc = "done"] IN
        call' = [call EXCEPT ![c] =
            IF fault
            THEN [begun EXCEPT !.result = BackendError, !.fault = "object"]
            ELSE [begun EXCEPT !.result = Ok,
                               !.count = Cardinality(GroupClauseRows(probe.groupList))]]
    /\ UNCHANGED <<kind, groups, store, index, stored, probe>>

NextGroupIndex ==
    \E c \in Calls :
        \/ Backend_change_group(c)
        \/ Backend_change_group_perm_old(c)
        \/ Backend_change_group_perm_new(c)
        \/ \E v \in Version \ Minted : Sql_change_group(c, v)
        \/ Backend_query_count_group(c)

SpecGroupIndex == InitGroupIndex /\ [][NextGroupIndex]_vars

\* ========================================================== orphaned objects
\* Backend::delete on a Group checks no back-references (the TODO in
\* Backend::delete), so a group record can be removed while objects still
\* name the group as their owner.  The states after such a removal: the
\* first id holds an object of G3, a group with no record; the other ids
\* hold nothing or an object of G1.
OrphanGroup == CHOOSE g \in GroupId : g \notin DOMAIN InitGroups

OrphanStores ==
    {s \in [Id -> {NoRow} \cup {[group |-> g, version |-> InitVersion, object |-> InitObject] :
                                    g \in {"G1", OrphanGroup}}] :
        /\ s[InitId] # NoRow
        /\ \A i \in Id : s[i] # NoRow => (s[i].group = OrphanGroup <=> i = InitId)}

InitOrphan ==
    /\ kind \in {"sql", "mongodb"}
    /\ groups = InitGroups
    /\ store \in OrphanStores
    /\ index = [i \in Id |->
                    IF store[i] # NoRow /\ kind = "sql" THEN IndexOf(store[i].object)
                    ELSE NoRow]
    /\ call = [c \in Calls |-> IdleCall]
    /\ stored = [i \in Id |-> IF store[i] = NoRow THEN <<>> ELSE <<InitVersion>>]
    /\ probe = NoProbe

SpecOrphan == InitOrphan /\ [][NextFresh]_vars

\* ================================================================ claims

\* the access level the permission model gives `user` on `group`: the
\* explicit per-user entry, else the group default; nothing when no group
\* record is stored
ExpectedAccess(group, user) ==
    IF group \notin DOMAIN groups
    THEN AccessNone
    ELSE IF user \in DOMAIN groups[group].permissions.users
    THEN groups[group].permissions.users[user]
    ELSE groups[group].permissions.default

\* this step is call c's compare-and-swap statement, and the statement ran
UpdateCasStep(c) ==
    /\ call[c].op = "update"
    /\ call[c].pc = "write"
    /\ call'[c].pc \in {"done", "index", "recheck"}
    /\ call'[c].fault = "none"

\* the version call c sent equals the version stored for its id
VersionIsCurrent(c) ==
    /\ store[call[c].id] # NoRow
    /\ store[call[c].id].version = call[c].version

\* call c's compare-and-swap has been applied
Applied(c) ==
    /\ call[c].op = "update"
    /\ call[c].pc = "index" \/ call[c].result = Ok

\* C1: an update that passed the Write check succeeds if and only if the
\* version it carries equals the stored version when its compare-and-swap
\* runs; on success the stored payload is the one sent and the version is a
\* new one; two updates carrying the same version never both succeed.
C1_UpdateIffVersionCurrent ==
    /\ [][\A c \in Calls : UpdateCasStep(c) =>
            IF VersionIsCurrent(c)
            THEN /\ store'[call[c].id] # NoRow
                 /\ store'[call[c].id].object = call[c].object
                 /\ store'[call[c].id].version # call[c].version
                 /\ call'[c].pc = "index" \/ call'[c].result = Ok
            ELSE /\ store' = store
                 /\ call'[c].pc = "recheck"]_vars
    /\ [][\A c \in Calls :
            (call'[c].op = "update" /\ call'[c].result = Ok /\ call[c].result # Ok)
            => \/ call[c].pc = "index"
               \/ call[c].pc = "write" /\ VersionIsCurrent(c)]_vars
    /\ [](\A c, d \in Calls :
            (c # d /\ call[c].id = call[d].id /\ call[c].version = call[d].version)
            => ~(Applied(c) /\ Applied(d)))

C1_Witness ==
    \E c, d \in Calls :
        /\ c # d
        /\ call[c].op = "update" /\ call[d].op = "update"
        /\ call[c].id = call[d].id /\ call[c].version = call[d].version
        /\ call[c].result = Ok
        /\ call[d].result = ConflictingEdit
        /\ store[call[c].id] # NoRow
        /\ store[call[c].id].object = call[c].object
        /\ call[c].object # InitObject

\* C2: when every call is an update of the same id by a caller with Write
\* access, all carrying the version stored when they were issued, and all
\* have returned without a storage error, exactly one returned success and
\* every other one ConflictingEdit.
C2_ExactlyOneUpdateWins ==
    (\A c \in Calls :
        /\ call[c].op = "update"
        /\ call[c].pc = "done"
        /\ call[c].fault = "none"
        /\ call[c].id = InitId
        /\ call[c].version = InitVersion
        /\ ExpectedAccess("G1", call[c].user) = Write)
    => /\ Cardinality({c \in Calls : call[c].result = Ok}) = 1
       /\ \A c \in Calls : call[c].result \in {Ok, ConflictingEdit}

C2_Witness ==
    /\ \A c \in Calls :
        /\ call[c].op = "update"
        /\ call[c].pc = "done"
        /\ call[c].fault = "none"
        /\ call[c].id = InitId
        /\ call[c].version = InitVersion
        /\ ExpectedAccess("G1", call[c].user) = Write
    /\ \E c \in Calls : call[c].result = ConflictingEdit

\* C3: a create reaches the storage backend only when the caller's access
\* to the owning group is at least Write; otherwise it returns Unauthorized
\* having stored nothing, and every record a create stored was stored for
\* a caller with Write access.
C3_CreateRequiresWrite ==
    /\ [](\A c \in Calls : call[c].op = "create" =>
        IF ExpectedAccess(call[c].newGroup, call[c].user) >= Write
        THEN call[c].result = Unauthorized => call[c].fault = "group"
        ELSE /\ call[c].pc = "done"
             /\ call[c].result = Unauthorized
             /\ call[c].id = NoId
             /\ call[c].newVersion = NoVersion)
    /\ [][\A i \in Id : (store[i] = NoRow /\ store'[i] # NoRow) =>
            \E c \in Calls :
                /\ call[c].op = "create" /\ call[c].pc = "write"
                /\ call'[c].id = i
                /\ store'[i].group = call[c].newGroup
                /\ ExpectedAccess(call[c].newGroup, call[c].user) >= Write]_vars

C3_Witness ==
    \E c, d \in Calls :
        /\ call[c].op = "create" /\ call[c].result = Ok
        /\ store[call[c].id] # NoRow
        /\ call[d].op = "create" /\ call[d].result = Unauthorized
        /\ call[d].fault = "none"
        /\ call[d].newGroup \in DOMAIN groups
        /\ ExpectedAccess(call[d].newGroup, call[d].user) = Read

\* C4: a get whose storage calls worked returns the record stored when it
\* looked the id up if the caller's access to that record's group is at
\* least Read, Unauthorized if the record exists and the access is below
\* Read, and the absent result if no record was stored.
C4_GetByAccess ==
    /\ [](\A c \in Calls :
            (call[c].op = "get" /\ call[c].pc = "done" /\ call[c].fault = "none")
            => IF call[c].grp = NoGroup
               THEN call[c].result = OkNone /\ call[c].found = NoRow
               ELSE IF ExpectedAccess(call[c].grp, call[c].user) >= Read
               THEN /\ call[c].result = Ok
                    /\ call[c].found # NoRow
                    /\ call[c].found.group = call[c].grp
               ELSE call[c].result = Unauthorized)
    /\ [][\A c \in Calls :
            (call[c].pc = "idle" /\ call'[c].op = "get" /\ call'[c].fault = "none")
            => IF store[call'[c].id] = NoRow
               THEN call'[c].pc = "done" /\ call'[c].grp = NoGroup
               ELSE /\ call'[c].pc = "perm"
                    /\ call'[c].found = store[call'[c].id]
                    /\ call'[c].grp = store[call'[c].id].group]_vars
    /\ [][\A c \in Calls :
            (call[c].op = "get" /\ call[c].pc = "perm" /\ call'[c].result = Ok)
            => call'[c].found = call[c].found /\ store' = store]_vars

C4_Witness ==
    \E c, d \in Calls :
        /\ call[c].op = "change_group" /\ call[c].result = Ok
        /\ call[d].op = "get" /\ call[d].result = Unauthorized
        /\ call[d].fault = "none"
        /\ call[d].id = call[c].id
        /\ store[call[d].id] # NoRow
        /\ store[call[d].id].group = call[d].grp
        /\ ExpectedAccess(call[d].grp, call[d].user) = AccessNone

\* C5: an update or delete whose caller has less than Write on the group
\* the call resolved for the object never reaches the storage write: it
\* returns Unauthorized, and no step of it changes the stored records or
\* the index rows.
C5_NoWriteBelowWrite ==
    /\ [](\A c \in Calls :
            (/\ call[c].op \in {"update", "delete"}
             /\ call[c].grp # NoGroup
             /\ ExpectedAccess(call[c].grp, call[c].user) < Write)
            => \/ call[c].pc \in {"perm", "cancelled"}
               \/ /\ call[c].pc = "done"
                  /\ call[c].result = Unauthorized
                  /\ call[c].newVersion = NoVersion)
    /\ [][\A c \in Calls :
            (/\ call'[c] # call[c]
             /\ call'[c].op \in {"update", "delete"}
             /\ call'[c].grp # NoGroup
             /\ ExpectedAccess(call'[c].grp, call'[c].user) < Write)
            => store' = store /\ index' = index]_vars

C5_Witness ==
    \E c, d \in Calls :
        /\ call[c].op = "update" /\ call[c].result = Unauthorized
        /\ call[c].fault = "none"
        /\ call[c].user \notin DOMAIN groups[call[c].grp].permissions.users
        /\ ExpectedAccess(call[c].grp, call[c].user) = Read
        /\ call[d].op = "delete" /\ call[d].result = Unauthorized
        /\ call[d].fault = "none"
        /\ store[call[c].id] = [group |-> "G1", version |-> InitVersion,
                                object |-> InitObject]

\* C6: a change_group whose caller has Write on the object's group but less
\* than Write on the new group never reaches the storage write: it returns
\* Unauthorized, and no step of it changes the stored records.
C6_ChangeGroupNeedsNewGroupWrite ==
    /\ [](\A c \in Calls :
            (/\ call[c].op = "change_group"
             /\ call[c].grp # NoGroup
             /\ ExpectedAccess(call[c].grp, call[c].user) >= Write
             /\ ExpectedAccess(call[c].newGroup, call[c].user) < Write)
            => \/ call[c].pc \in {"perm", "perm2", "cancelled"}
               \/ /\ call[c].pc = "done"
                  /\ call[c].result = Unauthorized
                  /\ call[c].newVersion = NoVersion)
    /\ [][\A c \in Calls :
            (/\ call'[c] # call[c]
             /\ call'[c].op = "change_group"
             /\ ExpectedAccess(call'[c].newGroup, call'[c].user) < Write)
            => store' = store]_vars

C6_Witness ==
    \E c \in Calls :
        /\ call[c].op = "change_group" /\ call[c].result = Unauthorized
        /\ call[c].fault = "none"
        /\ call[c].grp = "G1" /\ call[c].newGroup = "G2"
        /\ ExpectedAccess("G1", call[c].user) = Write
        /\ ExpectedAccess("G2", call[c].user) < Write
        /\ store[call[c].id] = [group |-> "G1", version |-> InitVersion,
                                object |-> InitObject]

\* C7: a call whose group lookup returned an error, or found no group
\* record, returns Unauthorized.
C7_PermissionLookupFailsClosed ==
    \A c \in Calls :
        /\ call[c].fault = "group"
            => call[c].pc = "done" /\ call[c].result = Unauthorized
        /\ (call[c].op = "create" /\ call[c].newGroup \notin DOMAIN groups)
            => call[c].pc = "done" /\ call[c].result = Unauthorized
        /\ (/\ call[c].op \in {"get", "update", "delete", "change_group"}
            /\ call[c].grp # NoGroup
            /\ call[c].grp \notin DOMAIN groups
            /\ call[c].pc \notin {"perm", "cancelled"})
            => call[c].pc = "done" /\ call[c].result = Unauthorized
        /\ (/\ call[c].op = "change_group"
            /\ call[c].grp # NoGroup
            /\ call[c].newGroup \notin DOMAIN groups
            /\ call[c].pc \notin {"perm", "perm2", "cancelled"})
            => call[c].pc = "done" /\ call[c].result = Unauthorized

C7_Witness ==
    \E c, d \in Calls :
        /\ call[c].fault = "group" /\ call[c].result = Unauthorized
        /\ call[c].op = "update"
        /\ call[d].op = "change_group" /\ call[d].result = Unauthorized
        /\ call[d].fault = "none"
        /\ call[d].newGroup \notin DOMAIN groups
        /\ ExpectedAccess(call[d].grp, call[d].user) = Write

\* the index rows the primary record of id i calls for
IndexFor(i) ==
    IF store[i] = NoRow
    THEN NoRow
    ELSE [name |-> store[i].object.name, description |-> store[i].object.description]

\* C8: in the relational backend, once no call is between its statement on
\* the primary records and its index transaction, and no storage call has
\* returned an error, the index rows of every id are those of its primary
\* record -- also when a call was cancelled between two statements.
C8_IndexNeverDiverges ==
    (/\ kind = "sql"
     /\ \A c \in Calls : call[c].pc # "index" /\ call[c].fault = "none")
    => \A i \in Id : index[i] = IndexFor(i)

\* C9: a compare-and-swap that matches no record changes nothing and is
\* followed by the existence re-check, whose answer is ConflictingEdit when
\* a record with the id is stored at that moment and NotFound when none is
\* (the re-check's own error is a Backend error); it is never success.
C9_MismatchIsConflictOrNotFound ==
    /\ [][\A c \in Calls :
            (UpdateCasStep(c) /\ ~VersionIsCurrent(c))
            => /\ store' = store /\ index' = index
               /\ call'[c].pc = "recheck"]_vars
    /\ [][\A c \in Calls :
            (call[c].pc = "recheck" /\ call'[c].pc = "done")
            => /\ store' = store /\ index' = index
               /\ call'[c].result =
                    IF call'[c].fault = "recheck" THEN BackendError
                    ELSE IF store[call[c].id] # NoRow THEN ConflictingEdit
                    ELSE NotFound]_vars

C9_Witness ==
    \E c, d \in Calls :
        /\ call[c].op = "update" /\ call[c].result = NotFound
        /\ call[c].grp # NoGroup
        /\ call[c].fault = "none"
        /\ call[d].op = "delete" /\ call[d].id = call[c].id
        /\ store[call[c].id] = NoRow

Range(seq) == {seq[k] : k \in DOMAIN seq}

\* C10 as stated: no version value is stored twice for the same id (so each
\* update and change_group that is applied stores a version different from
\* every earlier one).
C10_VersionNeverStoredTwice ==
    \A i \in Id : \A j, k \in DOMAIN stored[i] :
        j # k => stored[i][j] # stored[i][k]

\* this step applies call c's update or change_group to a stored record
MutationApplied(c) ==
    /\ call[c].op \in {"update", "change_group"}
    /\ call[c].pc = "write"
    /\ call'[c].pc \in {"done", "index"}
    /\ call'[c].fault = "none"
    /\ store[call[c].id] # NoRow

\* C10 amended: every update or change_group that is applied replaces the
\* stored version with the value the call drew from Version::new_random;
\* that value differs from the replaced version and from every version
\* stored earlier for the id whenever the draw returns a value it has not
\* returned before.
C10_VersionReplacedByDraw ==
    [][\A c \in Calls : MutationApplied(c) =>
        /\ store'[call[c].id] # NoRow
        /\ call'[c].newVersion \in Version
        /\ store'[call[c].id].version = call'[c].newVersion
        /\ stored'[call[c].id] = Append(stored[call[c].id], call'[c].newVersion)
        /\ call'[c].newVersion \notin Minted
            => /\ store'[call[c].id].version # store[call[c].id].version
               /\ call'[c].newVersion \notin Range(stored[call[c].id])]_vars

C10_Witness ==
    \E c, d \in Calls :
        /\ c # d
        /\ call[c].op = "update" /\ call[c].result = Ok
        /\ call[d].op = "change_group" /\ call[d].result = Ok
        /\ call[c].id = call[d].id
        /\ Len(stored[call[c].id]) = 3
        /\ stored[call[c].id][2] = call[c].newVersion
        /\ stored[call[c].id][3] = call[d].newVersion
        /\ store[call[c].id].version = call[d].newVersion
        /\ C10_VersionNeverStoredTwice

\* call e may have changed the record of id i
MayHaveMutated(e, i) ==
    /\ call[e].op \in {"create", "update", "delete", "change_group"}
    /\ call[e].id = i
    /\ call[e].pc \notin {"idle", "perm", "perm2"}
    /\ call[e].result \notin {Unauthorized, NotFound, ConflictingEdit}

\* the record a completed create call c asked to be stored
CreatedRecord(c) ==
    [group |-> call[c].newGroup, version |-> call[c].newVersion,
     object |-> call[c].object]

\* create call c has returned its id and no other call has touched that id
CreatedUntouched(c) ==
    /\ call[c].op = "create"
    /\ call[c].result = Ok
    /\ \A e \in Calls \ {c} : ~MayHaveMutated(e, call[c].id)

\* C11: after create(object, G) has returned id and until another call
\* changes that object, the stored record is (G, object, the version drawn
\* at creation); every get(id) reads exactly that record, leaves it as it
\* is, and returns it to a caller whose level on G is at least Read.
C11_GetReturnsWhatCreateStored ==
    /\ [](\A c \in Calls : CreatedUntouched(c) => store[call[c].id] = CreatedRecord(c))
    /\ [][\A c, d \in Calls :
            (/\ CreatedUntouched(c)
             /\ call[d].pc = "idle"
             /\ call'[d].op = "get"
             /\ call'[d].id = call[c].id
             /\ call'[d].fault = "none")
            => /\ call'[d].pc = "perm"
               /\ call'[d].found = CreatedRecord(c)
               /\ store' = store]_vars
    /\ [][\A c, d \in Calls :
            (/\ CreatedUntouched(c)
             /\ call[d].op = "get"
             /\ call[d].pc = "perm"
             /\ call[d].id = call[c].id
             /\ call'[d].pc = "done"
             /\ call'[d].fault = "none"
             /\ ExpectedAccess(call[c].newGroup, call[d].user) >= Read)
            => /\ call'[d].result = Ok
               /\ call'[d].found = CreatedRecord(c)
               /\ store' = store]_vars

C11_Witness ==
    \E c, d \in Calls :
        /\ CreatedUntouched(c)
        /\ call[d].op = "get"
        /\ call[d].id = call[c].id
        /\ call[d].result = Ok
        /\ ExpectedAccess(call[c].newGroup, call[d].user) = Read
        /\ call[d].found = CreatedRecord(c)
        /\ call[c].newVersion # InitVersion

\* the ids create has issued so far: the id of the record stored at the
\* start (issued by an earlier create) and the ids of the create calls
IssuedIds ==
    {InitId} \cup ({call[d].id : d \in {e \in Calls : call[e].op = "create"}} \ {NoId})

\* C12 as stated: no id is issued twice, also when the object it was issued
\* for has been deleted since.
C12_IdNeverIssuedTwice ==
    \A c \in Calls :
        (call[c].op = "create" /\ call[c].result = Ok)
        => /\ call[c].id # InitId
           /\ \A d \in Calls \ {c} :
                (call[d].op = "create" /\ call[d].result = Ok)
                => call[d].id # call[c].id

\* this step is the insert of create call c, and the insert was accepted
InsertStep(c) ==
    /\ call[c].op = "create"
    /\ call[c].pc = "write"
    /\ call'[c].pc \in {"done", "index"}
    /\ call'[c].fault = "none"

\* C12 amended: every create that succeeds returns the id it drew from
\* Id::new_random, under which no object is stored when the insert runs (so
\* it differs from the id of every object stored at that moment), and which
\* differs from every id issued before whenever the draw returns a value
\* not issued before; the objects of other ids are left as they are.
C12_CreateIssuesUnstoredId ==
    [][\A c \in Calls : InsertStep(c) =>
        /\ call'[c].id \in Id
        /\ store[call'[c].id] = NoRow
        /\ store'[call'[c].id] # NoRow
        /\ \A j \in Id \ {call'[c].id} : store'[j] = store[j]
        /\ \A d \in Calls \ {c} :
            (call[d].op = "create" /\ call[d].id # NoId /\ store[call[d].id] # NoRow)
            => call'[c].id # call[d].id
        /\ call'[c].id \notin IssuedIds
            => /\ call'[c].id # InitId
               /\ \A d \in Calls \ {c} :
                    call[d].op = "create" => call[d].id # call'[c].id]_vars

C12_Witness ==
    \E c \in Calls :
        /\ call[c].op = "create"
        /\ call[c].result = Ok
        /\ call[c].id # InitId
        /\ store[InitId] # NoRow
        /\ store[call[c].id] # NoRow
        /\ \A d \in Calls \ {c} : call[d].pc = "idle"

\* delete call c has returned success and no create has issued its id
DeletedForGood(c) ==
    /\ call[c].op = "delete"
    /\ call[c].result = Ok
    /\ \A e \in Calls : call[e].op = "create" => call[e].id # call[c].id

\* C13: once delete(id) has returned success, no record is stored under id
\* (until a create issues the id again), and a get(id) that finds no record
\* returns the absent result to every caller, with no permission check.
C13_GetAfterDeleteIsAbsent ==
    /\ [](\A c \in Calls : DeletedForGood(c) => store[call[c].id] = NoRow)
    /\ [][\A c, d \in Calls :
            (/\ DeletedForGood(c)
             /\ call[d].pc = "idle"
             /\ call'[d].op = "get"
             /\ call'[d].id = call[c].id
             /\ call'[d].fault = "none")
            => /\ call'[d].pc = "done"
               /\ call'[d].result = OkNone
               /\ call'[d].found = NoRow]_vars

C13_Witness ==
    \E c, d \in Calls :
        /\ DeletedForGood(c)
        /\ call[d].op = "get"
        /\ call[d].id = call[c].id
        /\ call[d].result = OkNone
        /\ call[d].user # call[c].user
        /\ ExpectedAccess("G1", call[d].user) = Write

\* this step is the statement of change_group call c, run on a stored record
ChangeGroupStep(c) ==
    /\ call[c].op = "change_group"
    /\ call[c].pc = "write"
    /\ call'[c].pc = "done"
    /\ call'[c].fault = "none"
    /\ store[call[c].id] # NoRow

\* change_group call c has returned success and the record it moved has not
\* been changed since; `pre` is the version the record had before the move
MovedFrom(c, pre) ==
    LET h == stored[call[c].id] IN
    /\ call[c].op = "change_group"
    /\ call[c].result = Ok
    /\ store[call[c].id] # NoRow
    /\ Len(h) >= 2
    /\ h[Len(h)] = call[c].newVersion
    /\ h[Len(h) - 1] = pre
    /\ store[call[c].id].version = call[c].newVersion
    /\ store[call[c].id].group = call[c].newGroup

\* C14: the statement of a successful change_group(id, G2) stores G2 as the
\* group and a new version, keeps the payload and touches no other id; an
\* update that then carries the version from before the move changes
\* nothing and ends with ConflictingEdit.
C14_ChangeGroupMovesAndRotates ==
    /\ [][\A c \in Calls : ChangeGroupStep(c) =>
            /\ call'[c].result = Ok
            /\ store'[call[c].id] =
                 [group |-> call[c].newGroup, version |-> call'[c].newVersion,
                  object |-> store[call[c].id].object]
            /\ call'[c].newVersion # store[call[c].id].version
            /\ \A j \in Id \ {call[c].id} : store'[j] = store[j]]_vars
    /\ [][\A c, d \in Calls :
            (/\ UpdateCasStep(d)
             /\ call[d].id = call[c].id
             /\ MovedFrom(c, call[d].version))
            => /\ call'[d].pc = "recheck"
               /\ store' = store]_vars
    /\ [][\A c, d \in Calls :
            (/\ call[d].op = "update"
             /\ call[d].pc = "recheck"
             /\ call'[d].pc = "done"
             /\ call'[d].fault = "none"
             /\ call[d].id = call[c].id
             /\ MovedFrom(c, call[d].version))
            => /\ call'[d].result = ConflictingEdit
               /\ store' = store]_vars

C14_Witness ==
    \E c, d \in Calls :
        /\ call[d].op = "update"
        /\ call[d].id = call[c].id
        /\ MovedFrom(c, call[d].version)
        /\ call[d].result = ConflictingEdit
        /\ store[call[c].id].group = "G2"
        /\ store[call[c].id].object = InitObject
        /\ call[d].object # InitObject

\* the operations that resolve the object's group before authorizing
ResolvingOps == {"update", "delete", "change_group"}

\* C15: update, delete and change_group on an id under which no record is
\* stored return NotFound from their first lookup, whoever the caller is
\* and with no permission lookup made and nothing changed; a failure of a
\* group-permission lookup made after that (the lookup's own error, or no
\* group record) is returned as Unauthorized.
C15_NotFoundBeforePermission ==
    /\ [][\A c \in Calls :
            (/\ call[c].pc = "idle"
             /\ call'[c].op \in ResolvingOps
             /\ call'[c].fault = "none"
             /\ store[call'[c].id] = NoRow)
            => /\ call'[c].pc = "done"
               /\ call'[c].result = NotFound
               /\ call'[c].grp = NoGroup
               /\ UNCHANGED <<store, index, stored>>]_vars
    /\ [][\A c \in Calls :
            (/\ call[c].op \in ResolvingOps
             /\ call[c].pc \in {"perm", "perm2"}
             /\ call'[c].pc = "done"
             /\ \/ call'[c].fault = "group"
                \/ (IF call[c].pc = "perm" THEN call[c].grp ELSE call[c].newGroup)
                        \notin DOMAIN groups)
            => /\ call'[c].result = Unauthorized
               /\ UNCHANGED <<store, index, stored>>]_vars

C15_Witness ==
    \E c, d \in Calls :
        /\ call[c].op = "delete" /\ call[c].result = NotFound
        /\ call[c].fault = "none"
        /\ call[c].grp = NoGroup
        /\ ExpectedAccess("G1", call[c].user) < Write
        /\ ExpectedAccess("G2", call[c].user) = AccessNone
        /\ call[d].op = "change_group" /\ call[d].result = Unauthorized
        /\ call[d].fault = "group"
        /\ call[d].grp # NoGroup

\* C16: the predicates the relational backend emits for a SimpleQuery hold
\* of a value exactly when SimpleQuery::matches is true of it.
C16_SqlSelectsWhatMatches ==
    probe.pc = "selected" => (probe.selected <=> probe.matches)

\* the comparators set in query q
Present(q) ==
    {f \in ScalarComparators : q[f] # NoValue}
        \cup {f \in ListComparators : q[f] # NoList}

\* what comparator f with argument a requires of value v
ComparatorHolds(f, a, v) ==
    CASE f = "eq" -> v = a
      [] f = "ne" -> v # a
      [] f = "gt" -> v > a
      [] f = "ge" -> v >= a
      [] f = "lt" -> v < a
      [] f = "le" -> v <= a
      [] f = "in_" -> v \in a
      [] f = "nin" -> v \notin a

\* C19: matches(v) is true exactly when every comparator set in the query
\* holds of v; {ge: 1, lt: 3} matches 1 and 2 and rejects 0 and 3, and a
\* query with no comparator set matches every value.
C19_MatchesIsConjunction ==
    probe.pc \in {"matched", "pushed", "selected"} =>
        LET q == probe.query
            v == probe.value
        IN /\ probe.matches <=> \A f \in Present(q) : ComparatorHolds(f, q[f], v)
           /\ (Present(q) = {"ge", "lt"} /\ q.ge = 1 /\ q.lt = 3)
                => (probe.matches <=> v \in {1, 2})
           /\ Present(q) = {} => probe.matches

C19_Witness ==
    /\ probe.pc = "matched"
    /\ Present(probe.query) = {"ge", "lt"}
    /\ probe.query.ge = 1
    /\ probe.query.lt = 3
    /\ probe.value = 3
    /\ ~probe.matches

\* ---------------------------------------------------------------- C17, C18
\* the stored objects every clause matches, by Query::matches
MatchingObjects(queries) ==
    {i \in Id : /\ store[i] # NoRow
                /\ \A k \in DOMAIN queries :
                      TransactionQuery_matches(queries[k], store[i].object)}

Counted(c) ==
    /\ call[c].pc = "done"
    /\ call[c].op = "query_count"
    /\ call[c].result = Ok

\* C17: query_count returns exactly the number of stored objects that every
\* clause matches, each object counted once even when several of its
\* collection entries satisfy a clause.  (Stated as the claim has it; the
\* statement the sql backend runs counts the rows of the join.)
C17_CountIsNumberOfMatchingObjects ==
    \A c \in Calls :
        Counted(c) => call[c].count = Cardinality(MatchingObjects(probe.queries))

\* C18: the facade's query_count does not depend on who calls it: two callers
\* passing the same clauses over the same store get the same count, whatever
\* their access to the groups of the counted objects.
C18_CountIgnoresCaller ==
    \A c, d \in Calls :
        Counted(c) /\ Counted(d) => call[c].count = call[d].count

\* two callers were answered, one of them has no access to the group of an
\* object that is in the count
C18_Witness ==
    \E c, d \in Calls : \E i \in Id :
        /\ c # d
        /\ Counted(c) /\ Counted(d)
        /\ call[c].user # call[d].user
        /\ store[i] # NoRow
        /\ get_group_permsissions(store[i].group, call[c].user, FALSE).level = Write
        /\ get_group_permsissions(store[i].group, call[d].user, FALSE).level = AccessNone
        /\ JoinRows(i, probe.queries) # {}
        /\ call[d].count > CountRows(Id \ {i}, probe.queries)

\* ---------------------------------------------------------------- C20
\* no All directly inside an All, no Any directly inside an Any, no Not
\* directly inside a Not, at any depth
RECURSIVE Normalized(_)
Normalized(expr) ==
    \A k \in DOMAIN expr.clauses :
        /\ expr.tag \in {"All", "Any", "Not"} => expr.clauses[k].tag # expr.tag
        /\ Normalized(expr.clauses[k])

\* C20: and(All(xs), All(ys)) is the flat All(xs followed by ys),
\* or(Any(xs), Any(ys)) is Any(xs followed by ys), not(Not(x)) is x
\* unchanged; and every expression built from leaves with and/or/not only is
\* normalized.
C20_ConstructorsNormalise ==
    probe.pc = "expr" =>
        /\ \A k \in DOMAIN probe.stack : Normalized(probe.stack[k])
        /\ (/\ probe.last.op = "and"
            /\ probe.last.self.tag = "All"
            /\ probe.last.other.tag = "All")
            => Top(probe.stack) =
                    ExprAll(probe.last.self.clauses \o probe.last.other.clauses)
        /\ (/\ probe.last.op = "or"
            /\ probe.last.self.tag = "Any"
            /\ probe.last.other.tag = "Any")
            => Top(probe.stack) =
                    ExprAny(probe.last.self.clauses \o probe.last.other.clauses)
        /\ (probe.last.op = "not" /\ probe.last.self.tag = "Not")
            => Top(probe.stack) = probe.last.self.clauses[1]

\* and has just joined All([a, b]) and All([b, a]) into one All of four leaves
C20_Witness ==
    /\ probe.pc = "expr"
    /\ probe.last.op = "and"
    /\ probe.last.self = ExprAll(<<ExprValue("a"), ExprValue("b")>>)
    /\ probe.last.other = ExprAll(<<ExprValue("b"), ExprValue("a")>>)
    /\ Top(probe.stack) = ExprAll(<<ExprValue("a"), ExprValue("b"), ExprValue("b"), ExprValue("a")>>)

\* ---------------------------------------------------------------- C21
\* an expression put together again from its parts with the constructors
RECURSIVE Rebuilt(_)
RECURSIVE RebuiltFrom(_, _, _)
RebuiltFrom(expr, acc, k) ==
    IF k > Len(expr.clauses)
    THEN acc
    ELSE RebuiltFrom(expr,
                     IF expr.tag = "All"
                     THEN BooleanExpr_and(acc, Rebuilt(expr.clauses[k]))
                     ELSE BooleanExpr_or(acc, Rebuilt(expr.clauses[k])),
                     k + 1)
Rebuilt(expr) ==
    CASE expr.tag = "Value" -> expr
      [] expr.tag = "Not" -> BooleanExpr_not(Rebuilt(expr.clauses[1]))
      [] OTHER -> RebuiltFrom(expr, Rebuilt(expr.clauses[1]), 2)

Assignments == [Leaves -> BOOLEAN]

\* C21: the constructors preserve the truth value: for every assignment of
\* truth values to the leaves and(x, y) evaluates to x AND y, or(x, y) to
\* x OR y, not(x) to NOT x, whatever the shapes of x and y; and building an
\* already flat expression again with the constructors changes nothing.
C21_ConstructorsPreserveTruth ==
    probe.pc = "expr" =>
        /\ \A k \in DOMAIN probe.stack : Rebuilt(probe.stack[k]) = probe.stack[k]
        /\ \A a \in Assignments :
            /\ probe.last.op = "and" =>
                    (Evaluate(Top(probe.stack), a) <=>
                        Evaluate(probe.last.self, a) /\ Evaluate(probe.last.other, a))
            /\ probe.last.op = "or" =>
                    (Evaluate(Top(probe.stack), a) <=>
                        Evaluate(probe.last.self, a) \/ Evaluate(probe.last.other, a))
            /\ probe.last.op = "not" =>
                    (Evaluate(Top(probe.stack), a) <=> ~Evaluate(probe.last.self, a))

\* and has just pushed a non-All operand onto the All that was its second
\* operand, and the result is true under one assignment and false under another
C21_Witness ==
    /\ probe.pc = "expr"
    /\ probe.last.op = "and"
    /\ probe.last.self.tag = "Not"
    /\ probe.last.other.tag = "All"
    /\ Top(probe.stack) = ExprAll(Append(probe.last.other.clauses, probe.last.self))
    /\ \E a, b \in Assignments :
            Evaluate(Top(probe.stack), a) /\ ~Evaluate(Top(probe.stack), b)

\* ---------------------------------------------------------------- C22
\* the same tree with every leaf replaced by its image
RECURSIVE ShapeMapped(_)
ShapeMapped(expr) ==
    IF expr.tag = "Value"
    THEN ExprValue(MappedLeaf(expr.value))
    ELSE [tag |-> expr.tag, value |-> "-",
          clauses |-> [k \in DOMAIN expr.clauses |-> ShapeMapped(expr.clauses[k])]]

\* the leaves in left-to-right traversal order
RECURSIVE LeavesOf(_)
RECURSIVE LeavesFrom(_, _)
LeavesFrom(clauses, k) ==
    IF k > Len(clauses) THEN <<>>
    ELSE LeavesOf(clauses[k]) \o LeavesFrom(clauses, k + 1)
LeavesOf(expr) ==
    IF expr.tag = "Value" THEN <<expr.value>> ELSE LeavesFrom(expr.clauses, 1)

FailingAt(expr, fails) == {k \in DOMAIN LeavesOf(expr) : LeavesOf(expr)[k] \in fails}
FirstFailing(expr, fails) ==
    LeavesOf(expr)[CHOOSE k \in FailingAt(expr, fails) :
                        \A j \in FailingAt(expr, fails) : k <= j]

\* C22: try_map_values returns the input's tree (same All/Any/Not nodes,
\* same children in the same order) with each leaf v replaced by f(v); if f
\* fails on a leaf, the first error in left-to-right order is returned and
\* no expression.  (Stated as the claim has it, for every value of the enum.)
C22_TryMapValuesKeepsShape ==
    probe.pc = "mapped" =>
        probe.result =
            IF FailingAt(Top(probe.stack), probe.fails) = {}
            THEN MapOk(ShapeMapped(Top(probe.stack)))
            ELSE MapErr(FirstFailing(Top(probe.stack), probe.fails))

\* ---------------------------------------------------------------- C23
\* a document of one field
FieldDocument(field, bson) ==
    [operator |-> "fields", clauses |-> <<[field |-> field, bson |-> bson]>>]
\* the comparators of a SimpleQuery as operators of the document store,
\* each operand in its serialized form
ComparatorsOf(query, type) ==
    [bson |-> "comparators",
     operators |->
        {[operator |-> "$eq", operand |-> Serialize(type, x)] : x \in {query.eq} \ {NoValue}}
        \cup {[operator |-> "$ne", operand |-> Serialize(type, x)] : x \in {query.ne} \ {NoValue}}
        \cup {[operator |-> "$gt", operand |-> Serialize(type, x)] : x \in {query.gt} \ {NoValue}}
        \cup {[operator |-> "$gte", operand |-> Serialize(type, x)] : x \in {query.ge} \ {NoValue}}
        \cup {[operator |-> "$lt", operand |-> Serialize(type, x)] : x \in {query.lt} \ {NoValue}}
        \cup {[operator |-> "$lte", operand |-> Serialize(type, x)] : x \in {query.le} \ {NoValue}}]
ElemMatchOn(field, fields) ==
    FieldDocument(field,
        [bson |-> "$elemMatch",
         document |-> [operator |-> "fields", clauses |-> fields]])

MutationStep(c) ==
    /\ call[c].op \in {"update", "delete", "change_group"}
    /\ call[c].pc = "write"
    /\ store'[call[c].id] # store[call[c].id]

\* C24: under any interleaving of facade operations, a mutation (update,
\* delete, change_group) takes effect only on an object whose owning group,
\* at the moment the backend write is applied, grants the caller at least
\* Write: the window between the permission check and the write cannot be
\* used to mutate an object the caller may not write.  (Stated as the claim
\* has it.)
C24_WriteOnlyWhereWritable ==
    [][\A c \in Calls :
        MutationStep(c) =>
            get_group_permsissions(store[call[c].id].group, call[c].user, FALSE).level
                >= Write]_vars

\* ---------------------------------------------------------------- C25
\* C25: for the per-entry leaves (account_amount on a transaction, UserPerm
\* on a group) in-memory matches() and the compiled element-match or
\* side-table form select the same objects, including objects that have no
\* entry at all for the account or user.  (Stated as the claim has it.)
C25_PerEntryLeafSelectsWhatMatches ==
    probe.pc = "selected" /\ probe.entity \in {"transaction", "group"} =>
        (probe.selected <=> probe.matches)

\* every call has returned, and each one was a successful update of `id`
UpdatesCompleted(id) ==
    \A c \in Calls :
        /\ call[c].pc = "done"
        /\ call[c].op = "update"
        /\ call[c].id = id
        /\ call[c].result = Ok

\* C26: in the relational backend, once concurrent successful updates of one
\* id have all completed, the index rows of the id are the projection of the
\* payload stored in its primary row; the index write of an earlier update
\* does not overwrite that of a later one.
C26_IndexFollowsLastUpdate ==
    kind = "sql" =>
        \A id \in Id :
            (UpdatesCompleted(id) /\ store[id] # NoRow) =>
                index[id] = IndexOf(store[id].object)

\* the compare-and-swap of update call c was applied: the version the call
\* drew is among the versions stored for its id
UpdateApplied(c) ==
    /\ call[c].op = "update"
    /\ call[c].id # NoId
    /\ call[c].newVersion \in Range(stored[call[c].id])

\* C27: a facade update that returned an error of any kind has not changed
\* the stored payload and version of its id; an update that changed the
\* stored record reports success.
C27_FailedUpdateChangedNothing ==
    \A c \in Calls :
        (call[c].op = "update" /\ call[c].pc = "done" /\ call[c].result # Ok)
            => ~UpdateApplied(c)

\* the objects stored in one of the groups of the list
StoredInGroups(groupList) ==
    {id \in Id : store[id] # NoRow /\ store[id].group \in groupList}

\* C28: the group recorded in the index equals the object's stored owning
\* group, and query_count with the clause Group(groups) counts exactly the
\* objects stored in one of those groups: after a successful
\* change_group(id, G2) on an object of G1, Group([G2]) counts the object and
\* Group([G1]) does not.
C28_IndexGroupIsStoredGroup ==
    /\ [](\A id \in Id :
            (store[id] # NoRow /\ index[id] # NoRow) =>
                index[id].group_ = store[id].group)
    /\ [][\A c \in Calls :
            (/\ call[c].pc = "idle"
             /\ call'[c].op = "query_count"
             /\ call'[c].result = Ok)
                => call'[c].count = Cardinality(StoredInGroups(probe.groupList))]_vars

\* call c is a delete / a change_group that returned success
DeleteSucceeded(c) ==
    call[c].op = "delete" /\ call[c].pc = "done" /\ call[c].result = Ok
ChangeGroupSucceeded(c) ==
    call[c].op = "change_group" /\ call[c].pc = "done" /\ call[c].result = Ok

\* C29: delete and change_group report success only if the object was stored
\* when their write was applied: two concurrent deletes of one id do not both
\* return success, and a change_group that returned success has stored the
\* version it drew (its write found the object).
C29_SuccessMeansObjectWasStored ==
    /\ \A c, d \in Calls :
        (c # d /\ DeleteSucceeded(c) /\ DeleteSucceeded(d))
            => call[c].id # call[d].id
    /\ \A c \in Calls :
        ChangeGroupSucceeded(c)
            => call[c].newVersion \in Range(stored[call[c].id])

\* the object of call c is owned by a group that has no record
Orphaned(c) ==
    /\ call[c].id # NoId
    /\ store[call[c].id] # NoRow
    /\ store[call[c].id].group \notin DOMAIN groups

\* C30: when the group owning an object has no record, get, update, delete
\* and change_group on the object return Unauthorized whoever calls (a call
\* whose lookup of the object itself failed in the storage returns that
\* error), and the object stays stored as it was.
C30_OrphanedObjectIsUnreachable ==
    \A c \in Calls :
        (/\ Orphaned(c)
         /\ call[c].op \in {"get", "update", "delete", "change_group"}
         /\ call[c].pc = "done"
         /\ call[c].fault # "object")
            => /\ call[c].result = Unauthorized
               /\ store[call[c].id].version = InitVersion

\* every user has been refused: two calls by different users, one a delete,
\* on the orphaned object, both returned Unauthorized
C30_Witness ==
    \E c, d \in Calls :
        /\ c # d
        /\ Orphaned(c) /\ Orphaned(d)
        /\ call[c].op = "delete" /\ call[d].op \in {"get", "update", "change_group"}
        /\ call[c].user # call[d].user
        /\ call[c].pc = "done" /\ call[d].pc = "done"
        /\ call[c].result = Unauthorized /\ call[d].result = Unauthorized

====
